---- MODULE Spec2Model ----
(***************************************************************************)
(* A model of the xcat attack engine: the command-line wrapper that builds *)
(* the AttackContext, the semaphore-gated request pipeline of attack.py,   *)
(* injection and feature detection, and the run set-up of cli.py.          *)
(***************************************************************************)
EXTENDS Integers, Sequences, FiniteSets, TLC

(***************************************************************************)
(* Bounds of the model.                                                    *)
(***************************************************************************)
\* largest value given to -c/--concurrency
MaxConcurrency == 2
\* number of oracle tasks that may run concurrently on one started context
NumTasks == 4
\* largest value given to --time
MaxNesting == 2

\* number of calls of check made on one started context
NumQueries == 3

Tasks == 1..NumTasks

Queries == 1..NumQueries

\* the names of the features of features.py, as --enable and --disable take
\* them and as context.features is keyed
FeatureNames ==
    {"xpath-2", "xpath-3", "xpath-3.1", "normalize-space", "substring-search",
     "codepoint-search", "environment-variables", "document-uri", "base-uri",
     "current-datetime", "unparsed-text", "doc-function", "linux",
     "expath-file", "saxon", "oob-http", "oob-entity-injection"}

\* the request parameters: target_parameter names the one that is injected
target_parameter == "id"
InitialParameters == [id |-> <<"1">>, lang |-> <<"e", "n">>]

\* the three request primitives of attack.py
Kinds == {"check", "timed_request", "get_response_with_match"}

\* the primitive each task runs: every kind is present, check more than once
KindOf(t) ==
    CASE t % 3 = 1 -> "check"
      [] t % 3 = 2 -> "timed_request"
      [] OTHER -> "get_response_with_match"

VARIABLES
    opts,       \* the parsed command-line options handed to wrapper
    phase,      \* where the command-line invocation stands
    context,    \* the AttackContext built by wrapper
    semaphore,  \* permits available in context.semaphore
    pc,         \* per task: idle, waiting, inflight, done
    kind,       \* per task: which primitive it runs
    payload,    \* per task: the payload it sends (0: one the model does not name)
    held,       \* per task: whether it holds a semaphore permit
    sent,       \* per task: number of HTTP requests it has sent
    failures,   \* per task: number of its requests that failed
    outcome,    \* per task: what the coroutine produced
    oob,        \* where the start_oob_server scope stands
    runner,     \* the OOB AppRunner: none, set_up, cleaned
    oracle,     \* the server: the set of payloads it answers true
    detect,     \* where detect_injections stands
    injector,   \* detect_injections: index of the catalog entry at hand
    returner,   \* detect_injections: the list it builds
    timed,      \* where detect_injections_timed stands
    slow,       \* the catalog entries whose requests can take over a second
    false_time, \* detect_injections_timed: the last false_time measured
    true_time,  \* detect_injections_timed: the last true_time measured
    detected,   \* detect_injections_timed: the list it builds
    accepted_pairs,  \* the (true_time, false_time) measured for each of detected
    best_true_time,  \* detect_injections_timed
    best_false_time, \* detect_injections_timed
    threshold_doubled,  \* twice the threshold detect_injections_timed returns
    traverse,   \* where _tree_traverse stands
    shape,      \* the document the in-band server answers from
    stack,      \* _tree_traverse: (parent_path, child_idx, depth) entries
    requests,   \* _tree_traverse: requests sent
    all_text,   \* _tree_traverse: the paths whose lines were recorded
    current_path,  \* _tree_traverse: the path probed last
    probes,     \* the paths probed in the loop so far, in order
    recover,  \* where get_text / get_node_name stands
    recover_function,  \* which of get_text and get_node_name runs
    secret,  \* the string of the document that is recovered
    position,  \* get_text: the index i
    scan,  \* get_text: index in the character list of the character asked next
    text,  \* get_text: the string recovered so far
    render,  \* where the rendering of one catalog entry stands
    catalog_entry,  \* the catalog entry being rendered
    working_value,  \* the working value given to test_payloads and to the injection
    rendered_tests,  \* the result of test_payloads
    expression,  \* the expression given to the injection
    rendered,  \* the result of calling the injection
    parameters,  \* the entries of the dict context.parameters
    server,  \* the requests the server answers as true
    check_pc,  \* where each call of check stands
    check_payload,  \* the payload each call of check is given
    args,  \* the parameters each call of check sends
    verdict,  \* the boolean each call of check returns
    elapsed,  \* the time the request of each call of check took
    matched,  \* what match_function gives for the response of each call
    enable,  \* the feature names given to --enable
    disable,  \* the feature names given to --disable
    context_features,  \* the entries of the dict context.features
    available,  \* what detect_features reports for each feature on this server
    extract,  \* where inband_extract and start_attack stand
    basic_lines,  \* inband_extract: the lines of the basic diff
    union_lines,  \* inband_extract: the lines of the union diff
    diff_lines,  \* inband_extract: the simple-diff lines chosen
    tree_lines,  \* inband_extract: the lines _tree_traverse returned
    tree_requests,  \* inband_extract: the requests _tree_traverse made
    extract_result,  \* what inband_extract returned
    explore_stack,  \* the calls of explore_node in progress, the outermost first
    command,  \* the subcommand invoked: detect, run or shell
    command_pc,  \* where the subcommand stands
    feat,       \* where detect_features stands
    feature,    \* detect_features: index of the feature at hand
    feature_results,  \* detect_features: the availability of each feature probed
    run,        \* where setup_context stands
    detected_injections,  \* setup_context: the result of detection
    feature_injection,    \* the injection setup_context hands to get_features
    feature_requests,     \* requests of the run's feature probing
    extraction_requests,  \* requests made with the context setup_context yields
    exit_code   \* exit code of the process (0 while it runs)

cliVars == <<opts, phase, context>>
taskVars == <<semaphore, pc, kind, payload, held, sent, failures, outcome>>
oobVars == <<oob, runner>>
detectVars == <<detect, injector, returner>>
runVars == <<run, detected_injections, feature_injection, feature_requests,
             extraction_requests, exit_code>>
featVars == <<feat, feature, feature_results>>
timedVars == <<timed, slow, false_time, true_time, detected, accepted_pairs,
               best_true_time, best_false_time, threshold_doubled>>
inbandVars == <<traverse, shape, stack, requests, all_text, current_path,
               probes>>
recoverVars == <<recover, recover_function, secret, position, scan, text>>
renderVars == <<render, catalog_entry, working_value, rendered_tests, expression, rendered>>
checkVars == <<parameters, server, check_pc, check_payload, args, verdict,
               elapsed, matched>>
flagVars == <<enable, disable, context_features, available>>
extractVars == <<extract, basic_lines, union_lines, diff_lines, tree_lines, tree_requests, extract_result>>
exploreVars == <<explore_stack>>
commandVars == <<command, command_pc>>
procVars == <<oracle, commandVars, exploreVars, extractVars, flagVars, checkVars, renderVars, recoverVars, inbandVars, detectVars, timedVars, featVars, runVars>>
vars == <<command, command_pc,
          explore_stack,
          extract, basic_lines, union_lines, diff_lines, tree_lines, tree_requests, extract_result,
          enable, disable, context_features, available,
          parameters, server, check_pc, check_payload, args, verdict,
          elapsed, matched,
          render, catalog_entry, working_value, rendered_tests, expression, rendered,
          recover, recover_function, secret, position, scan, text,
          opts, phase, context, semaphore, pc, kind, payload, held, sent, failures,
          outcome, oob, runner, oracle, detect, injector, returner, timed, slow,
          false_time, true_time, detected, accepted_pairs, best_true_time,
          best_false_time, threshold_doubled, traverse, shape, stack,
          requests, all_text, current_path, probes, feat, feature,
          feature_results, run, detected_injections, feature_injection,
          feature_requests, extraction_requests, exit_code>>

(***************************************************************************)
(* cli.py: attack_options.wrapper                                          *)
(***************************************************************************)
\* The values of --oob: absent, HOST:PORT, a port that is no number, and a
\* value without a colon.
OobValues == {"none", "host:port", "host:text", "text"}

\* The option values wrapper can receive.  time_nesting 0 stands for the
\* falsy values (option absent, or --time 0) and -1 for the negative
\* integers, which --time (type=int) takes as well; true_code / true_string say
\* whether the option carries a truthy value; body says whether --body was
\* given (the encoding option keeps its default); tamper is the state of the
\* --tamper script.
Options ==
    [time_nesting : (-1)..MaxNesting,
     concurrency : 1..MaxConcurrency,
     inband : BOOLEAN,
     true_code : BOOLEAN,
     true_string : BOOLEAN,
     body : BOOLEAN,
     target_in_parameters : BOOLEAN,
     tamper : {"none", "callable", "invalid"},
     oob : OobValues]

(***************************************************************************)
(* attack.py: make_delay_payload.  A payload is the sequence of its        *)
(* pieces: "count((//.)", "[", "]" and ")".                                *)
(***************************************************************************)
\* payload = "count((//.))"
BasePayload == <<"count((//.)", ")">>

\* f"count((//.)[{payload}])"
WrapPayload(inner) == <<"count((//.)", "[">> \o inner \o <<"]", ")">>

\* for _ in range(n): payload = f"count((//.)[{payload}])"
RECURSIVE NestPayload(_, _)
NestPayload(inner, n) ==
    IF n <= 0 THEN inner ELSE NestPayload(WrapPayload(inner), n - 1)

make_delay_payload(nesting) == NestPayload(BasePayload, nesting - 1)

\* the AttackContext before wrapper has built one; time_delay_expr is <<>>
\* for None; injection is the number
\* of a catalog entry (0 for None), time_threshold is kept doubled
NullContext ==
    [concurrency |-> 0, inband |-> FALSE, time_based |-> FALSE,
     match_function |-> "none", time_delay_nesting |-> 0,
     time_delay_expr |-> <<>>,
     tamper_function |-> FALSE, oob_details |-> "none", oob_app |-> FALSE,
     injection |-> 0, time_threshold |-> 0]

\* mutant: the --inband / --time exclusion is not checked
WrapperFailsNoExclusion(o) ==
    \/ o.body
    \/ ~o.true_code /\ ~o.true_string /\ o.time_nesting = 0
    \/ ~o.target_in_parameters
    \/ o.tamper = "invalid"

\* the ctx.fail(...) exits of wrapper (lines 60-67, 79-80, 87-102).
\* encode defaults to the enum member Encoding.URL, which differs from the
\* string 'url', so a given --body is rejected.
WrapperFails(o) ==
    \/ o.body
    \/ o.inband /\ o.time_nesting # 0
    \/ ~o.true_code /\ ~o.true_string /\ o.time_nesting = 0
    \/ ~o.target_in_parameters
    \/ o.tamper = "invalid"

\* mutant: the -c value is kept in time-based mode
BuildContextKeepConcurrency(o) ==
    [concurrency |-> o.concurrency,
     inband |-> o.inband,
     time_based |-> o.time_nesting # 0,
     match_function |-> IF o.true_code \/ o.true_string
                        THEN "from_options" ELSE "constant_false",
     time_delay_nesting |-> o.time_nesting,
     time_delay_expr |-> IF o.time_nesting # 0
                         THEN make_delay_payload(o.time_nesting) ELSE <<>>,
     tamper_function |-> o.tamper = "callable",
     oob_details |-> o.oob,
     oob_app |-> FALSE,
     injection |-> 0,
     time_threshold |-> 0]

\* the AttackContext(...) construction of wrapper (lines 69-77, 104-120)
BuildContext(o) ==
    [concurrency |-> IF o.time_nesting # 0 THEN 1 ELSE o.concurrency,
     inband |-> o.inband,
     time_based |-> o.time_nesting # 0,
     match_function |-> IF o.true_code \/ o.true_string
                        THEN "from_options" ELSE "constant_false",
     time_delay_nesting |-> o.time_nesting,
     time_delay_expr |-> IF o.time_nesting # 0
                         THEN make_delay_payload(o.time_nesting) ELSE <<>>,
     tamper_function |-> o.tamper = "callable",
     oob_details |-> o.oob,
     oob_app |-> FALSE,
     injection |-> 0,
     time_threshold |-> 0]

\* dict.update({k: value for k in names})
UpdateFeatures(dict, names, value) ==
    [n \in FeatureNames |-> IF n \in names THEN value ELSE dict[n]]

\* wrapper, lines 122-126: the features of --enable are entered as True,
\* then those of --disable as False
ForceFeatures(dict, on, off) ==
    UpdateFeatures(UpdateFeatures(dict, on, "True"), off, "False")

\* wrapper: reject the invocation (exit code 2) or build the context and
\* enter the forced features
Wrapper ==
    /\ phase = "cli"
    /\ IF WrapperFails(opts)
       THEN /\ phase' = "usage_error"
            /\ UNCHANGED <<context, context_features>>
       ELSE /\ phase' = "built"
            /\ context' = BuildContext(opts)
            /\ context_features' = ForceFeatures(context_features, enable, disable)
    /\ UNCHANGED <<opts, taskVars, oobVars, oracle, commandVars, exploreVars, extractVars, checkVars, renderVars,
                   recoverVars, inbandVars, detectVars, timedVars, featVars,
                   runVars, enable, disable, available>>

(***************************************************************************)
(* attack.py: AttackContext.start                                          *)
(***************************************************************************)
\* start: BoundedSemaphore(self.concurrency) and the client session
Start ==
    /\ phase = "built"
    /\ phase' = "started"
    /\ semaphore' = context.concurrency
    /\ UNCHANGED <<opts, context, pc, kind, payload, held, sent, failures, outcome,
                   oobVars, procVars>>

(***************************************************************************)
(* attack.py: check, timed_request, get_response_with_match                *)
(***************************************************************************)
\* a coroutine of one of the three primitives is created on the started
\* context; it builds its arguments and reaches `async with semaphore`
Launch(t) ==
    /\ phase = "started"
    /\ oob \in {"unused", "serving"}
    /\ pc[t] = "idle"
    /\ pc' = [pc EXCEPT ![t] = "waiting"]
    /\ kind' = [kind EXCEPT ![t] = KindOf(t)]
    /\ UNCHANGED <<cliVars, semaphore, payload, held, sent, failures, outcome,
                   oobVars, procVars>>

\* mutant: the request is sent without waiting for a permit
AcquireNoWait(t) ==
    /\ pc[t] = "waiting"
    /\ pc' = [pc EXCEPT ![t] = "inflight"]
    /\ sent' = [sent EXCEPT ![t] = @ + 1]
    /\ UNCHANGED <<cliVars, semaphore, held, kind, payload, failures, outcome, oobVars, procVars>>

\* `async with context.semaphore:` is entered and session.request(...) is
\* issued; the task does not yield between the two
Acquire(t) ==
    /\ pc[t] = "waiting"
    /\ semaphore > 0
    /\ semaphore' = semaphore - 1
    /\ held' = [held EXCEPT ![t] = TRUE]
    /\ pc' = [pc EXCEPT ![t] = "inflight"]
    /\ sent' = [sent EXCEPT ![t] = @ + 1]
    /\ UNCHANGED <<cliVars, kind, payload, failures, outcome, oobVars, procVars>>

\* what a primitive returns for a completed request: check returns a
\* verdict (match_function, or elapsed >= time_threshold), which the server
\* decides from the payload; the others return a value
Returns(t) ==
    IF kind[t] # "check" THEN {"value"}
    ELSE IF payload[t] = 0 THEN {"true", "false"}
    ELSE IF payload[t] \in oracle THEN {"true"}
    ELSE {"false"}

\* mutant: the coroutine returns without leaving `async with semaphore`
RespondKeepsPermit(t) ==
    /\ pc[t] = "inflight"
    /\ \E r \in Returns(t) : outcome' = [outcome EXCEPT ![t] = r]
    /\ pc' = [pc EXCEPT ![t] = "done"]
    /\ UNCHANGED <<cliVars, semaphore, held, kind, payload, sent, failures,
                   oobVars, procVars>>

\* the body has been read; the coroutine returns and the permit is released
Respond(t) ==
    /\ pc[t] = "inflight"
    /\ \E r \in Returns(t) : outcome' = [outcome EXCEPT ![t] = r]
    /\ pc' = [pc EXCEPT ![t] = "done"]
    /\ held' = [held EXCEPT ![t] = FALSE]
    /\ semaphore' = IF held[t] THEN semaphore + 1 ELSE semaphore
    /\ UNCHANGED <<cliVars, kind, payload, sent, failures, oobVars, procVars>>

\* mutant: a failed request is sent once more and a second failure is
\* turned into a false verdict
FailRetry(t) ==
    /\ pc[t] = "inflight"
    /\ failures' = [failures EXCEPT ![t] = @ + 1]
    /\ IF sent[t] < 2
       THEN /\ sent' = [sent EXCEPT ![t] = @ + 1]
            /\ UNCHANGED <<pc, held, semaphore, outcome>>
       ELSE /\ outcome' = [outcome EXCEPT ![t] = "false"]
            /\ pc' = [pc EXCEPT ![t] = "done"]
            /\ held' = [held EXCEPT ![t] = FALSE]
            /\ semaphore' = IF held[t] THEN semaphore + 1 ELSE semaphore
            /\ UNCHANGED sent
    /\ UNCHANGED <<cliVars, kind, payload, oobVars, procVars>>

\* the request fails or times out (or match_function raises): the exception
\* leaves both `async with` blocks, releasing the permit, and the coroutine
\* raises it to its caller
Fail(t) ==
    /\ pc[t] = "inflight"
    /\ failures' = [failures EXCEPT ![t] = @ + 1]
    /\ outcome' = [outcome EXCEPT ![t] = "raised"]
    /\ pc' = [pc EXCEPT ![t] = "done"]
    /\ held' = [held EXCEPT ![t] = FALSE]
    /\ semaphore' = IF held[t] THEN semaphore + 1 ELSE semaphore
    /\ UNCHANGED <<cliVars, kind, payload, sent, oobVars, procVars>>

\* mutant: a cancelled task keeps the permit it holds
CancelKeepsPermit(t) ==
    /\ pc[t] \in {"waiting", "inflight"}
    /\ outcome' = [outcome EXCEPT ![t] = "cancelled"]
    /\ pc' = [pc EXCEPT ![t] = "done"]
    /\ UNCHANGED <<cliVars, semaphore, held, kind, payload, sent, failures,
                   oobVars, procVars>>

\* the task is cancelled while waiting for a permit or for the response
Cancel(t) ==
    /\ pc[t] \in {"waiting", "inflight"}
    /\ outcome' = [outcome EXCEPT ![t] = "cancelled"]
    /\ pc' = [pc EXCEPT ![t] = "done"]
    /\ held' = [held EXCEPT ![t] = FALSE]
    /\ semaphore' = IF held[t] THEN semaphore + 1 ELSE semaphore
    /\ UNCHANGED <<cliVars, kind, payload, sent, failures, oobVars, procVars>>

TaskInit ==
    /\ semaphore = 0
    /\ pc = [t \in Tasks |-> "idle"]
    /\ kind = [t \in Tasks |-> "check"]
    /\ payload = [t \in Tasks |-> 0]
    /\ held = [t \in Tasks |-> FALSE]
    /\ sent = [t \in Tasks |-> 0]
    /\ failures = [t \in Tasks |-> 0]
    /\ outcome = [t \in Tasks |-> "none"]

\* detect_injections_timed is not running
TimedIdle ==
    /\ timed = "idle"
    /\ slow = {}
    /\ false_time = 0
    /\ true_time = 0
    /\ detected = <<>>
    /\ accepted_pairs = <<>>
    /\ best_true_time = 0
    /\ best_false_time = 0
    /\ threshold_doubled = 0

\* no feature is forced and context.features is the empty dict
FlagIdle ==
    /\ enable = {}
    /\ disable = {}
    /\ context_features = [n \in FeatureNames |-> "absent"]
    /\ available = [n \in FeatureNames |-> FALSE]

\* no subcommand has been entered
CommandIdle ==
    /\ command = "none"
    /\ command_pc = "idle"

\* explore_node has not been called
ExploreIdle == explore_stack = <<>>

\* inband_extract has not been called
ExtractIdle ==
    /\ extract = "idle"
    /\ basic_lines = <<>>
    /\ union_lines = <<>>
    /\ diff_lines = <<>>
    /\ tree_lines = <<>>
    /\ tree_requests = 0
    /\ extract_result = [kind |-> "pending", lines |-> <<>>]

\* check is not being called: the parameter dict holds what --parameters gave
CheckIdle ==
    /\ parameters = InitialParameters
    /\ server = {}
    /\ check_pc = [q \in Queries |-> "idle"]
    /\ check_payload = [q \in Queries |-> <<>>]
    /\ args = [q \in Queries |-> InitialParameters]
    /\ verdict = [q \in Queries |-> FALSE]
    /\ elapsed = [q \in Queries |-> 0]
    /\ matched = [q \in Queries |-> FALSE]

\* no catalog entry is being rendered
RenderIdle ==
    /\ render = "idle"
    /\ catalog_entry = 1
    /\ working_value = <<>>
    /\ rendered_tests = <<>>
    /\ expression = <<>>
    /\ rendered = <<>>

\* get_text and get_node_name are not running
RecoverIdle ==
    /\ recover = "idle"
    /\ recover_function = "get_text"
    /\ secret = <<>>
    /\ position = 1
    /\ scan = 1
    /\ text = <<>>

\* _tree_traverse is not running
InbandIdle ==
    /\ traverse = "idle"
    /\ shape = [root |-> FALSE, every_index |-> FALSE, width |-> 0,
                every_depth |-> FALSE, height |-> 1, mixed |-> FALSE]
    /\ stack = <<>>
    /\ requests = 0
    /\ all_text = <<>>
    /\ current_path = <<>>
    /\ probes = <<>>

\* detect_features is not running
FeatIdle ==
    /\ feat = "idle"
    /\ feature = 1
    /\ feature_results = <<>>

\* no detection and no run is in progress
ProcIdle ==
    /\ oracle = {}
    /\ detect = "idle"
    /\ injector = 1
    /\ returner = <<>>
    /\ TimedIdle
    /\ InbandIdle
    /\ CommandIdle
    /\ ExploreIdle
    /\ ExtractIdle
    /\ FlagIdle
    /\ CheckIdle
    /\ RenderIdle
    /\ RecoverIdle
    /\ FeatIdle
    /\ run = "idle"
    /\ detected_injections = <<>>
    /\ feature_injection = 0
    /\ feature_requests = 0
    /\ extraction_requests = 0
    /\ exit_code = 0

\* an invocation without --oob: the scope of null_context.  The tamper
\* script is absent or invalid: a callable one changes the arguments of a
\* request only, which the tasks here do not carry.
Init ==
    /\ opts \in {o \in Options : o.oob = "none" /\ o.tamper # "callable"}
    /\ phase = "cli"
    /\ context = NullContext
    /\ TaskInit
    /\ oob = "unused"
    /\ runner = "none"
    /\ ProcIdle

Next ==
    \/ Wrapper
    \/ Start
    \/ \E t \in Tasks : Launch(t)
    \/ \E t \in Tasks : Acquire(t)
    \/ \E t \in Tasks : Respond(t)
    \/ \E t \in Tasks : Fail(t)
    \/ \E t \in Tasks : Cancel(t)

Spec == Init /\ [][Next]_vars

(***************************************************************************)
(* attack.py: AttackContext.start_oob_server                               *)
(***************************************************************************)
\* start_oob_server is called on the started context: the oob_app guard, the
\* split of oob_details into host and port, create_app() and AppRunner(app)
OobEnter ==
    /\ phase = "started"
    /\ oob = "call"
    /\ oob' = IF context.oob_app \/ context.oob_details \in {"none", "text"}
              THEN "raised" ELSE "runner_setup"
    /\ runner' = "none"
    /\ UNCHANGED <<cliVars, taskVars, procVars>>

\* `await runner.setup()` completes, then TCPSite(runner, '0.0.0.0', int(port))
\* is built: int(port) raises for a port that is no number
OobRunnerSetup ==
    /\ oob = "runner_setup"
    /\ runner' = "set_up"
    /\ oob' = IF context.oob_details = "host:text" THEN "raised" ELSE "site_start"
    /\ UNCHANGED <<cliVars, taskVars, procVars>>

\* `await runner.setup()` raises or is cancelled
OobRunnerSetupFails ==
    /\ oob = "runner_setup"
    /\ oob' = "raised"
    /\ UNCHANGED <<cliVars, taskVars, runner, procVars>>

\* `await site.start()` completes; new_ctx, a copy of the context, carries
\* oob_host and oob_app and the scope body is entered at `yield new_ctx`
OobSiteStart ==
    /\ oob = "site_start"
    /\ oob' = "serving"
    /\ UNCHANGED <<cliVars, taskVars, runner, procVars>>

\* `await site.start()` raises (the port is taken) or is cancelled: the
\* exception leaves start_oob_server before its try block is entered
OobSiteStartFails ==
    /\ oob = "site_start"
    /\ oob' = "raised"
    /\ UNCHANGED <<cliVars, taskVars, runner, procVars>>

\* no request of the scope body is pending
BodyQuiet == \A t \in Tasks : pc[t] \in {"idle", "done"}

\* the scope body ends, by returning or by raising: the finally block starts
OobBodyEnds(how) ==
    /\ oob = "serving"
    /\ BodyQuiet
    /\ oob' = how
    /\ UNCHANGED <<cliVars, taskVars, runner, procVars>>

\* the scope body is cancelled: its pending requests are aborted, releasing
\* their permits, and CancelledError reaches the finally block
OobBodyCancelled ==
    /\ oob = "serving"
    /\ ~BodyQuiet
    /\ pc' = [t \in Tasks |-> IF pc[t] = "idle" THEN "idle" ELSE "done"]
    /\ outcome' = [t \in Tasks |->
                     IF pc[t] \in {"waiting", "inflight"} THEN "cancelled"
                     ELSE outcome[t]]
    /\ held' = [t \in Tasks |-> FALSE]
    /\ semaphore' = semaphore + Cardinality({t \in Tasks : held[t]})
    /\ oob' = "cleanup_raise"
    /\ UNCHANGED <<cliVars, kind, payload, sent, failures, runner, procVars>>

\* finally: `await runner.cleanup()`, then the scope is left
OobCleanup ==
    /\ oob \in {"cleanup_return", "cleanup_raise"}
    /\ runner' = "cleaned"
    /\ oob' = IF oob = "cleanup_return" THEN "returned" ELSE "raised"
    /\ UNCHANGED <<cliVars, taskVars, procVars>>

\* an invocation that enters start_oob_server right after start()
InitOob ==
    /\ opts \in {o \in Options : /\ ~o.body
                                 /\ o.target_in_parameters
                                 /\ o.tamper = "none"
                                 /\ o.time_nesting = 0
                                 /\ o.true_string}
    /\ phase = "cli"
    /\ context = NullContext
    /\ TaskInit
    /\ oob = "call"
    /\ runner = "none"
    /\ ProcIdle

NextOob ==
    \/ Wrapper
    \/ Start
    \/ OobEnter
    \/ OobRunnerSetup
    \/ OobRunnerSetupFails
    \/ OobSiteStart
    \/ OobSiteStartFails
    \/ \E how \in {"cleanup_return", "cleanup_raise"} : OobBodyEnds(how)
    \/ OobBodyCancelled
    \/ OobCleanup
    \/ \E t \in Tasks : Launch(t)
    \/ \E t \in Tasks : Acquire(t)
    \/ \E t \in Tasks : Respond(t)
    \/ \E t \in Tasks : Fail(t)

SpecOob == InitOob /\ [][NextOob]_vars

(***************************************************************************)
(* injections.py: the catalog and detect_injections                        *)
(***************************************************************************)
\* The catalog, in order.  callable says whether payload is a function of
\* the expression builder; expected lists the expected results of the
\* entries of test_template_payloads, in order.
injectors ==
    << [name |-> "integer", callable |-> FALSE, expected |-> <<TRUE, FALSE>>],
       [name |-> "string - single quote", callable |-> FALSE,
        expected |-> <<TRUE, FALSE>>],
       [name |-> "string - single quote - or", callable |-> FALSE,
        expected |-> <<TRUE, FALSE>>],
       [name |-> "string - double quote", callable |-> FALSE,
        expected |-> <<TRUE, FALSE>>],
       [name |-> "string - double quote - or", callable |-> FALSE,
        expected |-> <<TRUE, FALSE>>],
       [name |-> "attribute name - prefix", callable |-> TRUE,
        expected |-> <<TRUE, FALSE>>],
       [name |-> "attribute name - postfix", callable |-> TRUE,
        expected |-> <<TRUE, FALSE>>],
       [name |-> "element name - prefix", callable |-> TRUE,
        expected |-> <<TRUE, FALSE>>],
       [name |-> "element name - postfix", callable |-> TRUE,
        expected |-> <<TRUE, FALSE>>],
       [name |-> "function call - last string parameter - single quote",
        callable |-> FALSE, expected |-> <<TRUE, FALSE>>],
       [name |-> "function call - last string parameter - double quote",
        callable |-> FALSE, expected |-> <<TRUE, FALSE>>],
       [name |-> "other elements - last string parameter - double quote",
        callable |-> FALSE, expected |-> <<TRUE, FALSE>>] >>

Injectors == 1..Len(injectors)

\* The rendered test payloads are named by number, in catalog order: the
\* templates are pairwise different, and so are their renderings with one
\* working value.
RECURSIVE PayloadOffset(_)
PayloadOffset(i) ==
    IF i = 1 THEN 0 ELSE PayloadOffset(i - 1) + Len(injectors[i - 1].expected)

\* mutant: the expected result of every probe is taken to be True
test_payloads_expect_true(i) ==
    [k \in 1..Len(injectors[i].expected) |->
        [payload |-> PayloadOffset(i) + k, expected |-> TRUE]]

\* Injection.test_payloads: the rendered templates with their expected results
test_payloads(i) ==
    [k \in 1..Len(injectors[i].expected) |->
        [payload |-> PayloadOffset(i) + k, expected |-> injectors[i].expected[k]]]

InjectionPayloads ==
    {test_payloads(i)[k].payload : i \in Injectors, k \in 1..2}

\* the injector a test payload belongs to
InjectorOf(p) ==
    CHOOSE i \in Injectors :
        \E k \in DOMAIN test_payloads(i) : test_payloads(i)[k].payload = p

\* The servers a detection is run against: those that answer true for at
\* most n payloads, and those that answer false for at most n payloads.
\* MaxFlips is n for injection detection, MaxFeatureFlips for feature
\* detection.
MaxFlips == 2
MaxFeatureFlips == 1

RECURSIVE SubsetsUpTo(_, _)
SubsetsUpTo(S, n) ==
    IF n = 0 THEN {{}}
    ELSE LET prev == SubsetsUpTo(S, n - 1)
         IN  prev \cup {T \cup {x} : T \in prev, x \in S}

Oracles(S, n) ==
    LET few == SubsetsUpTo(S, n)
    IN  few \cup {S \ T : T \in few}

\* the verdict check returned, as a boolean
Verdict(t) == outcome[t] = "true"

\* mutant: one matching probe is enough
AnyResultMatches(payloads) ==
    \E k \in DOMAIN payloads : Verdict(k) = payloads[k].expected

\* all(result == expected for result, (_, expected) in zip(results, payloads))
AllResultsMatch(payloads) ==
    \A k \in DOMAIN payloads : Verdict(k) = payloads[k].expected

\* the coroutines check(context, test_payload) of one catalog entry are
\* created and handed to asyncio.gather: task k sends the k-th payload
DetectRender ==
    /\ phase = "started"
    /\ detect = "render"
    /\ injector <= Len(injectors)
    /\ LET payloads == test_payloads(injector)
       IN  /\ pc' = [t \in Tasks |->
                       IF t \in DOMAIN payloads THEN "waiting" ELSE "idle"]
           /\ payload' = [t \in Tasks |->
                       IF t \in DOMAIN payloads THEN payloads[t].payload ELSE 0]
    /\ kind' = [t \in Tasks |-> "check"]
    /\ sent' = [t \in Tasks |-> 0]
    /\ failures' = [t \in Tasks |-> 0]
    /\ outcome' = [t \in Tasks |-> "none"]
    /\ detect' = "gather"
    /\ UNCHANGED <<cliVars, semaphore, held, oobVars, oracle, commandVars, exploreVars, extractVars, flagVars, checkVars, renderVars, recoverVars, inbandVars, timedVars, injector, returner,
                   featVars, runVars>>

\* mutant: the results are taken without waiting for the probes
DetectGatherNoWait ==
    /\ detect = "gather"
    /\ \A t \in Tasks : outcome[t] # "raised"
    /\ returner' = IF AllResultsMatch(test_payloads(injector))
                   THEN Append(returner, injector) ELSE returner
    /\ injector' = injector + 1
    /\ detect' = "render"
    /\ UNCHANGED <<cliVars, taskVars, oobVars, oracle, commandVars, exploreVars, extractVars, flagVars, checkVars, renderVars, recoverVars, inbandVars, timedVars, featVars, runVars>>

\* gather returns the results: the entry is kept when they all match
DetectGather ==
    /\ detect = "gather"
    /\ \A t \in Tasks : pc[t] \in {"idle", "done"}
    /\ \A t \in Tasks : outcome[t] # "raised"
    /\ returner' = IF AllResultsMatch(test_payloads(injector))
                   THEN Append(returner, injector) ELSE returner
    /\ injector' = injector + 1
    /\ detect' = "render"
    /\ UNCHANGED <<cliVars, taskVars, oobVars, oracle, commandVars, exploreVars, extractVars, flagVars, checkVars, renderVars, recoverVars, inbandVars, timedVars, featVars, runVars>>

\* a check raised: gather hands the exception to detect_injections, which
\* does not catch it
DetectRaise ==
    /\ detect = "gather"
    /\ \E t \in Tasks : outcome[t] = "raised"
    /\ detect' = "raised"
    /\ UNCHANGED <<cliVars, taskVars, oobVars, oracle, commandVars, exploreVars, extractVars, flagVars, checkVars, renderVars, recoverVars, inbandVars, timedVars, injector, returner, featVars, runVars>>

\* the loop over the catalog is over: return returner
DetectReturn ==
    /\ detect = "render"
    /\ injector > Len(injectors)
    /\ detect' = "returned"
    /\ UNCHANGED <<cliVars, taskVars, oobVars, oracle, commandVars, exploreVars, extractVars, flagVars, checkVars, renderVars, recoverVars, inbandVars, timedVars, injector, returner, featVars, runVars>>

(***************************************************************************)
(* cli.py: setup_context                                                   *)
(***************************************************************************)
\* how many feature-probe and extraction requests of a run are followed
MaxRunRequests == 2

\* detected_injections = await get_injections(context)
SetupGetInjections ==
    /\ run = "get_injections"
    /\ ~context.time_based
    /\ detect = "returned"
    /\ detected_injections' = returner
    /\ run' = "detected"
    /\ UNCHANGED <<cliVars, taskVars, oobVars, oracle, commandVars, exploreVars, extractVars, flagVars, checkVars, renderVars, recoverVars, inbandVars, detectVars, timedVars,
                   featVars, feature_injection, feature_requests,
                   extraction_requests, exit_code>>

\* detected_injections, threshold = await get_injections_timed(context)
SetupGetInjectionsTimed ==
    /\ run = "get_injections"
    /\ context.time_based
    /\ timed = "returned"
    /\ detected_injections' = detected
    /\ run' = "detected"
    /\ UNCHANGED <<cliVars, taskVars, oobVars, oracle, commandVars, exploreVars, extractVars, flagVars, checkVars, renderVars, recoverVars, inbandVars, detectVars, timedVars,
                   featVars, feature_injection, feature_requests,
                   extraction_requests, exit_code>>

\* if not detected_injections: ... exit(1); in time-based mode the threshold
\* is put into the context otherwise
SetupCheckDetected ==
    /\ run = "detected"
    /\ IF detected_injections = <<>>
       THEN /\ run' = "exit"
            /\ exit_code' = 1
            /\ UNCHANGED context
       ELSE /\ run' = "selected"
            /\ context' = IF context.time_based
                          THEN [context EXCEPT
                                    !.time_threshold = threshold_doubled]
                          ELSE context
            /\ UNCHANGED exit_code
    /\ UNCHANGED <<opts, phase, taskVars, oobVars, oracle, commandVars, exploreVars, extractVars, flagVars, checkVars, renderVars, recoverVars, inbandVars, detectVars,
                   timedVars, featVars, detected_injections, feature_injection,
                   feature_requests, extraction_requests>>

\* time-based mode: no feature detection, normalize-space is forced
SetupForceNormalizeSpace ==
    /\ run = "selected"
    /\ context.time_based
    /\ context_features' = [context_features EXCEPT !["normalize-space"] = "True"]
    /\ run' = "probed"
    /\ UNCHANGED <<cliVars, taskVars, oobVars, oracle, commandVars, exploreVars, extractVars, enable, disable, available, checkVars, renderVars, recoverVars, inbandVars, detectVars, timedVars,
                   featVars, detected_injections, feature_injection,
                   feature_requests, extraction_requests, exit_code>>

\* features = await get_features(context, detected_injections[0]): the call
SetupGetFeatures ==
    /\ run = "selected"
    /\ ~context.time_based
    /\ detected_injections # <<>>
    /\ feature_injection' = detected_injections[1]
    /\ run' = "features"
    /\ UNCHANGED <<cliVars, taskVars, oobVars, oracle, commandVars, exploreVars, extractVars, flagVars, checkVars, renderVars, recoverVars, inbandVars, detectVars, timedVars,
                   featVars, detected_injections, feature_requests,
                   extraction_requests, exit_code>>

\* a request of detect_features, rendered with the injection it was handed
SetupFeatureRequest ==
    /\ run = "features"
    /\ feature_requests < MaxRunRequests
    /\ feature_requests' = feature_requests + 1
    /\ UNCHANGED <<cliVars, taskVars, oobVars, oracle, commandVars, exploreVars, extractVars, flagVars, checkVars, renderVars, recoverVars, inbandVars, detectVars, timedVars,
                   featVars, run, detected_injections, feature_injection,
                   extraction_requests, exit_code>>

\* mutant: every reported value is entered, forced or not
EnterFeaturesOverForced(dict, reported) ==
    [n \in FeatureNames |-> IF reported[n] THEN "True" ELSE "False"]

\* lines 249-252: the reported value of every feature that is not in the
\* dict is entered
EnterFeatures(dict, reported) ==
    [n \in FeatureNames |->
        IF dict[n] # "absent" THEN dict[n]
        ELSE IF reported[n] THEN "True" ELSE "False"]

\* get_features returns its list and context.features is filled from it
SetupFeaturesDone ==
    /\ run = "features"
    /\ context_features' = EnterFeatures(context_features, available)
    /\ run' = "probed"
    /\ UNCHANGED <<cliVars, taskVars, oobVars, oracle, commandVars, exploreVars, extractVars, enable, disable, available, checkVars, renderVars, recoverVars, inbandVars, detectVars, timedVars,
                   featVars, detected_injections, feature_injection,
                   feature_requests, extraction_requests, exit_code>>

\* mutant: the mode is not looked at
UsesOobServerAnyMode == context_features["oob-http"] = "True"

\* not context.time_based and context.features['oob-http']
UsesOobServer ==
    ~context.time_based /\ context_features["oob-http"] = "True"

\* mutant: the last detected injection is put into the context
SetupStartLast ==
    /\ run = "probed"
    /\ detected_injections # <<>>
    /\ context' = [context EXCEPT
                       !.injection = detected_injections[Len(detected_injections)]]
    /\ semaphore' = context.concurrency
    /\ IF UsesOobServer
       THEN /\ oob' = "call"
            /\ run' = "oob_server"
       ELSE /\ run' = "yielded"
            /\ UNCHANGED oob
    /\ UNCHANGED <<opts, phase, pc, kind, payload, held, sent, failures,
                   outcome, runner, oracle, commandVars, exploreVars, extractVars, flagVars, checkVars, renderVars, recoverVars, inbandVars, detectVars, timedVars, featVars,
                   detected_injections, feature_injection, feature_requests,
                   extraction_requests, exit_code>>

\* async with context.start(detected_injections[0]) as ctx: the context
\* manager is start_oob_server when the oob-http feature is set in boolean
\* mode, else null_context, whose context is yielded at once
SetupStart ==
    /\ run = "probed"
    /\ detected_injections # <<>>
    /\ context' = [context EXCEPT !.injection = detected_injections[1]]
    /\ semaphore' = context.concurrency
    /\ IF UsesOobServer
       THEN /\ oob' = "call"
            /\ run' = "oob_server"
       ELSE /\ run' = "yielded"
            /\ UNCHANGED oob
    /\ UNCHANGED <<opts, phase, pc, kind, payload, held, sent, failures,
                   outcome, runner, oracle, commandVars, exploreVars, extractVars, flagVars, checkVars, renderVars, recoverVars, inbandVars, detectVars, timedVars, featVars,
                   detected_injections, feature_injection, feature_requests,
                   extraction_requests, exit_code>>

\* start_oob_server has started the server: `yield oob_ctx`
SetupOobYield ==
    /\ run = "oob_server"
    /\ oob = "serving"
    /\ run' = "yielded"
    /\ UNCHANGED <<cliVars, taskVars, oobVars, oracle, commandVars, exploreVars, extractVars, flagVars, checkVars, renderVars, recoverVars, inbandVars, detectVars, timedVars,
                   featVars, detected_injections, feature_injection,
                   feature_requests, extraction_requests, exit_code>>

\* start_oob_server raised: setup_context yields nothing
SetupOobRaise ==
    /\ run = "oob_server"
    /\ oob = "raised"
    /\ run' = "raised"
    /\ UNCHANGED <<cliVars, taskVars, oobVars, oracle, commandVars, exploreVars, extractVars, flagVars, checkVars, renderVars, recoverVars, inbandVars, detectVars, timedVars,
                   featVars, detected_injections, feature_injection,
                   feature_requests, extraction_requests, exit_code>>

\* a request made by the extraction with the context that was yielded
ExtractionRequest ==
    /\ run = "yielded"
    /\ extraction_requests < MaxRunRequests
    /\ extraction_requests' = extraction_requests + 1
    /\ UNCHANGED <<cliVars, taskVars, oobVars, oracle, commandVars, exploreVars, extractVars, flagVars, checkVars, renderVars, recoverVars, inbandVars, detectVars, timedVars,
                   featVars, run, detected_injections, feature_injection,
                   feature_requests, exit_code>>

\* a run in boolean mode
InitDetect ==
    /\ opts \in {o \in Options : /\ ~o.body
                                 /\ o.target_in_parameters
                                 /\ o.tamper = "none"
                                 /\ o.time_nesting = 0
                                 /\ ~o.inband
                                 /\ o.true_string
                                 /\ ~o.true_code
                                 /\ o.concurrency = MaxConcurrency
                                 /\ o.oob = "none"}
    /\ phase = "cli"
    /\ context = NullContext
    /\ TaskInit
    /\ oob = "unused"
    /\ runner = "none"
    /\ oracle \in Oracles(InjectionPayloads, MaxFlips)
    /\ detect = "render"
    /\ injector = 1
    /\ returner = <<>>
    /\ TimedIdle
    /\ InbandIdle
    /\ CommandIdle
    /\ ExploreIdle
    /\ ExtractIdle
    /\ FlagIdle
    /\ CheckIdle
    /\ RenderIdle
    /\ RecoverIdle
    /\ FeatIdle
    /\ run = "get_injections"
    /\ detected_injections = <<>>
    /\ feature_injection = 0
    /\ feature_requests = 0
    /\ extraction_requests = 0
    /\ exit_code = 0

NextDetect ==
    \/ Wrapper
    \/ Start
    \/ DetectRender
    \/ \E t \in Tasks : Acquire(t)
    \/ \E t \in Tasks : Respond(t)
    \/ \E t \in Tasks : Fail(t)
    \/ DetectGather
    \/ DetectRaise
    \/ DetectReturn
    \/ SetupGetInjections
    \/ SetupCheckDetected
    \/ SetupGetFeatures
    \/ SetupFeatureRequest
    \/ SetupFeaturesDone
    \/ SetupStart
    \/ ExtractionRequest

SpecDetect == InitDetect /\ [][NextDetect]_vars

(***************************************************************************)
(* injections.py: detect_injections_timed                                  *)
(***************************************************************************)
\* Times are counted in whole seconds.
OneSecond == 1
\* the longest request
MaxTime == 4
\* how many catalog entries can take over a second
MaxSlow == 2

\* the catalog entries that can take over a second: the first entry, an
\* entry with a callable payload and the last entry
SlowCandidates == {1, 6, Len(injectors)}

\* the elapsed times timed_request can return for a catalog entry
ElapsedTimes(i) == IF i \in slow THEN 0..MaxTime ELSE 0..OneSecond

\* mutant: the one-second floor is not applied
AcceptsWithoutFloor(tt, ft) == tt > ft * 2

\* true_time > false_time * 2 and true_time > 1.0
Accepts(tt, ft) == tt > ft * 2 /\ tt > OneSecond

\* (best_true_time + best_false_time) / 2 if detected else 0.0, doubled
CalibratedThreshold(bt, bf, det) == IF det # <<>> THEN bt + bf ELSE 0

\* both payloads of the catalog entry are rendered
TimedRender ==
    /\ phase = "started"
    /\ timed = "render"
    /\ injector <= Len(injectors)
    /\ timed' = "false_request"
    /\ UNCHANGED <<cliVars, taskVars, oobVars, oracle, commandVars, exploreVars, extractVars, flagVars, checkVars, renderVars, recoverVars, inbandVars, detectVars, slow, false_time,
                   true_time, detected, accepted_pairs, best_true_time,
                   best_false_time, threshold_doubled, featVars, runVars>>

\* rendering raises in the payload function of the entry: the entry is
\* skipped
TimedSkip ==
    /\ phase = "started"
    /\ timed = "render"
    /\ injector <= Len(injectors)
    /\ injectors[injector].callable
    /\ injector' = injector + 1
    /\ UNCHANGED <<cliVars, taskVars, oobVars, oracle, commandVars, exploreVars, extractVars, flagVars, checkVars, renderVars, recoverVars, inbandVars, detect, returner, timedVars,
                   featVars, runVars>>

\* false_time = await timed_request(context, false_payload)
TimedFalseRequest ==
    /\ timed = "false_request"
    /\ \E ft \in ElapsedTimes(injector) : false_time' = ft
    /\ timed' = "true_request"
    /\ UNCHANGED <<cliVars, taskVars, oobVars, oracle, commandVars, exploreVars, extractVars, flagVars, checkVars, renderVars, recoverVars, inbandVars, detectVars, slow,
                   true_time, detected, accepted_pairs, best_true_time,
                   best_false_time, threshold_doubled, featVars, runVars>>

\* true_time = await timed_request(context, true_payload), and the test
\* that accepts the entry and keeps the best pair
TimedTrueRequest ==
    /\ timed = "true_request"
    /\ \E tt \in ElapsedTimes(injector) :
        /\ true_time' = tt
        /\ IF Accepts(tt, false_time)
           THEN /\ detected' = Append(detected, injector)
                /\ accepted_pairs' =
                       Append(accepted_pairs, [t |-> tt, f |-> false_time])
                /\ IF tt > best_true_time
                   THEN /\ best_true_time' = tt
                        /\ best_false_time' = false_time
                   ELSE UNCHANGED <<best_true_time, best_false_time>>
           ELSE UNCHANGED <<detected, accepted_pairs, best_true_time,
                            best_false_time>>
    /\ injector' = injector + 1
    /\ timed' = "render"
    /\ UNCHANGED <<cliVars, taskVars, oobVars, oracle, commandVars, exploreVars, extractVars, flagVars, checkVars, renderVars, recoverVars, inbandVars, detect, returner, slow,
                   false_time, threshold_doubled, featVars, runVars>>

\* a timed_request raises: detect_injections_timed does not catch it
TimedRaise ==
    /\ timed \in {"false_request", "true_request"}
    /\ timed' = "raised"
    /\ UNCHANGED <<cliVars, taskVars, oobVars, oracle, commandVars, exploreVars, extractVars, flagVars, checkVars, renderVars, recoverVars, inbandVars, detectVars, slow, false_time,
                   true_time, detected, accepted_pairs, best_true_time,
                   best_false_time, threshold_doubled, featVars, runVars>>

\* the loop over the catalog is over: return detected, threshold
TimedReturn ==
    /\ timed = "render"
    /\ injector > Len(injectors)
    /\ threshold_doubled' =
           CalibratedThreshold(best_true_time, best_false_time, detected)
    /\ timed' = "returned"
    /\ UNCHANGED <<cliVars, taskVars, oobVars, oracle, commandVars, exploreVars, extractVars, flagVars, checkVars, renderVars, recoverVars, inbandVars, detectVars, slow, false_time,
                   true_time, detected, accepted_pairs, best_true_time,
                   best_false_time, featVars, runVars>>

\* a run in time-based mode
InitTimed ==
    /\ opts \in {o \in Options : /\ ~o.body
                                 /\ o.target_in_parameters
                                 /\ o.tamper = "none"
                                 /\ o.time_nesting = MaxNesting
                                 /\ ~o.inband
                                 /\ ~o.true_string
                                 /\ ~o.true_code
                                 /\ o.concurrency = MaxConcurrency
                                 /\ o.oob = "none"}
    /\ phase = "cli"
    /\ context = NullContext
    /\ TaskInit
    /\ oob = "unused"
    /\ runner = "none"
    /\ oracle = {}
    /\ detect = "idle"
    /\ injector = 1
    /\ returner = <<>>
    /\ timed = "render"
    /\ slow \in SubsetsUpTo(SlowCandidates, MaxSlow)
    /\ false_time = 0
    /\ true_time = 0
    /\ detected = <<>>
    /\ accepted_pairs = <<>>
    /\ best_true_time = 0
    /\ best_false_time = 0
    /\ threshold_doubled = 0
    /\ InbandIdle
    /\ CommandIdle
    /\ ExploreIdle
    /\ ExtractIdle
    /\ FlagIdle
    /\ CheckIdle
    /\ RenderIdle
    /\ RecoverIdle
    /\ FeatIdle
    /\ run = "get_injections"
    /\ detected_injections = <<>>
    /\ feature_injection = 0
    /\ feature_requests = 0
    /\ extraction_requests = 0
    /\ exit_code = 0

NextTimed ==
    \/ Wrapper
    \/ Start
    \/ TimedRender
    \/ TimedSkip
    \/ TimedFalseRequest
    \/ TimedTrueRequest
    \/ TimedRaise
    \/ TimedReturn
    \/ SetupGetInjectionsTimed
    \/ SetupCheckDetected
    \/ SetupForceNormalizeSpace
    \/ SetupStart
    \/ ExtractionRequest

SpecTimed == InitTimed /\ [][NextTimed]_vars

(***************************************************************************)
(* features.py: the feature list, test_oob and detect_features             *)
(***************************************************************************)
\* The features, in declaration order: the number of positive tests,
\* whether they are test_oob callables, and the number of false_tests.
features ==
    << [name |-> "xpath-2", tests |-> 3, oob |-> FALSE, false_tests |-> 1],
       [name |-> "xpath-3", tests |-> 1, oob |-> FALSE, false_tests |-> 0],
       [name |-> "xpath-3.1", tests |-> 1, oob |-> FALSE, false_tests |-> 1],
       [name |-> "normalize-space", tests |-> 1, oob |-> FALSE, false_tests |-> 1],
       [name |-> "substring-search", tests |-> 2, oob |-> FALSE, false_tests |-> 1],
       [name |-> "codepoint-search", tests |-> 1, oob |-> FALSE, false_tests |-> 1],
       [name |-> "environment-variables", tests |-> 1, oob |-> FALSE,
        false_tests |-> 1],
       [name |-> "document-uri", tests |-> 1, oob |-> FALSE, false_tests |-> 0],
       [name |-> "base-uri", tests |-> 1, oob |-> FALSE, false_tests |-> 0],
       [name |-> "current-datetime", tests |-> 1, oob |-> FALSE, false_tests |-> 0],
       [name |-> "unparsed-text", tests |-> 1, oob |-> FALSE, false_tests |-> 0],
       [name |-> "doc-function", tests |-> 1, oob |-> FALSE, false_tests |-> 0],
       [name |-> "linux", tests |-> 1, oob |-> FALSE, false_tests |-> 0],
       [name |-> "expath-file", tests |-> 1, oob |-> FALSE, false_tests |-> 0],
       [name |-> "saxon", tests |-> 1, oob |-> FALSE, false_tests |-> 1],
       [name |-> "oob-http", tests |-> 1, oob |-> TRUE, false_tests |-> 0],
       [name |-> "oob-entity-injection", tests |-> 1, oob |-> TRUE,
        false_tests |-> 0] >>

Features == 1..Len(features)

\* The payloads of the feature tests are numbered after those of the
\* injection tests: per feature its positive tests, then its false_tests.
RECURSIVE FeatureOffset(_)
FeatureOffset(f) ==
    IF f = 1 THEN Cardinality(InjectionPayloads)
    ELSE FeatureOffset(f - 1) + features[f - 1].tests + features[f - 1].false_tests

TestPayload(f, k) == FeatureOffset(f) + k
FalseTestPayload(f, k) == FeatureOffset(f) + features[f].tests + k

FeaturePayloads ==
    UNION {{FeatureOffset(f) + k :
                k \in 1..(features[f].tests + features[f].false_tests)} :
            f \in Features}

\* the tasks gather waits for
Launched == {t \in Tasks : pc[t] # "idle"}

\* all(checks)
AllTrue == \A t \in Launched : Verdict(t)

\* mutant: the false_tests are run but their results are not looked at
negative_pass_ignored == TRUE

\* negative_pass: not any(false_checks)
negative_pass == ~(\E t \in Launched : Verdict(t))

\* The tests of one feature are created and handed to asyncio.gather.  An
\* expression test is a check; a test_oob test returns False at once when
\* the context has no oob_details and otherwise enters start_oob_server.
FeatLaunchTests ==
    /\ phase = "started"
    /\ feat = "tests"
    /\ feature <= Len(features)
    /\ LET f == features[feature]
           skipped == f.oob /\ context.oob_details = "none"
       IN  /\ pc' = [t \in Tasks |->
                       IF t > f.tests THEN "idle"
                       ELSE IF ~f.oob THEN "waiting"
                       ELSE IF skipped THEN "done"
                       ELSE "idle"]
           /\ payload' = [t \in Tasks |->
                       IF t <= f.tests THEN TestPayload(feature, t) ELSE 0]
           /\ outcome' = [t \in Tasks |->
                       IF t <= f.tests /\ skipped THEN "false" ELSE "none"]
           /\ oob' = IF f.oob /\ ~skipped THEN "call" ELSE "unused"
    /\ kind' = [t \in Tasks |-> "check"]
    /\ sent' = [t \in Tasks |-> 0]
    /\ failures' = [t \in Tasks |-> 0]
    /\ feat' = "gather"
    /\ UNCHANGED <<cliVars, semaphore, held, runner, oracle, commandVars, exploreVars, extractVars, flagVars, checkVars, renderVars, recoverVars, inbandVars, detectVars, timedVars, feature,
                   feature_results, runVars>>

\* test_oob_inner, inside the start_oob_server scope: check(context, ...)
TestOobCheck ==
    /\ feat = "gather"
    /\ oob = "serving"
    /\ pc[1] = "idle"
    /\ pc' = [pc EXCEPT ![1] = "waiting"]
    /\ UNCHANGED <<cliVars, semaphore, kind, payload, held, sent, failures, outcome,
                   oobVars, procVars>>

\* test_oob_inner leaves the scope with the verdict of check, or with the
\* exception it raised
TestOobBodyEnds ==
    /\ feat = "gather"
    /\ oob = "serving"
    /\ pc[1] = "done"
    /\ oob' = IF outcome[1] = "raised" THEN "cleanup_raise" ELSE "cleanup_return"
    /\ UNCHANGED <<cliVars, taskVars, runner, procVars>>

\* the positive tests are over and none raised
PositiveGathered ==
    /\ feat = "gather"
    /\ oob \in {"unused", "returned"}
    /\ Launched # {}
    /\ \A t \in Launched : pc[t] = "done" /\ outcome[t] # "raised"

\* mutant: the false_tests are run whatever the positive tests returned
FeatGatherFalseTestsAlways ==
    /\ PositiveGathered
    /\ features[feature].false_tests > 0
    /\ pc' = [t \in Tasks |->
                IF t <= features[feature].false_tests THEN "waiting" ELSE "idle"]
    /\ payload' = [t \in Tasks |->
                IF t <= features[feature].false_tests
                THEN FalseTestPayload(feature, t) ELSE 0]
    /\ outcome' = [t \in Tasks |-> "none"]
    /\ sent' = [t \in Tasks |-> 0]
    /\ failures' = [t \in Tasks |-> 0]
    /\ oob' = "unused"
    /\ feat' = "gather_false"
    /\ UNCHANGED <<cliVars, semaphore, kind, held, runner, oracle, commandVars, exploreVars, extractVars, flagVars, checkVars, renderVars, recoverVars, inbandVars, detectVars, timedVars,
                   feature, feature_results, runVars>>

\* gather returns the results of the positive tests: when they all passed
\* and the feature has false_tests, these are created and gathered
FeatGatherFalseTests ==
    /\ PositiveGathered
    /\ AllTrue
    /\ features[feature].false_tests > 0
    /\ pc' = [t \in Tasks |->
                IF t <= features[feature].false_tests THEN "waiting" ELSE "idle"]
    /\ payload' = [t \in Tasks |->
                IF t <= features[feature].false_tests
                THEN FalseTestPayload(feature, t) ELSE 0]
    /\ outcome' = [t \in Tasks |-> "none"]
    /\ sent' = [t \in Tasks |-> 0]
    /\ failures' = [t \in Tasks |-> 0]
    /\ oob' = "unused"
    /\ feat' = "gather_false"
    /\ UNCHANGED <<cliVars, semaphore, kind, held, runner, oracle, commandVars, exploreVars, extractVars, flagVars, checkVars, renderVars, recoverVars, inbandVars, detectVars, timedVars,
                   feature, feature_results, runVars>>

\* gather returns the results of the positive tests and no false test is
\* run: the feature is reported with positive_pass
FeatGather ==
    /\ PositiveGathered
    /\ ~(AllTrue /\ features[feature].false_tests > 0)
    /\ feature_results' = Append(feature_results, AllTrue)
    /\ feature' = feature + 1
    /\ oob' = "unused"
    /\ feat' = "tests"
    /\ UNCHANGED <<cliVars, taskVars, runner, oracle, commandVars, exploreVars, extractVars, flagVars, checkVars, renderVars, recoverVars, inbandVars, detectVars, timedVars, runVars>>

\* gather returns the results of the false_tests: the feature is reported
\* with positive_pass and negative_pass
FeatGatherFalse ==
    /\ feat = "gather_false"
    /\ \A t \in Launched : pc[t] = "done" /\ outcome[t] # "raised"
    /\ feature_results' = Append(feature_results, negative_pass)
    /\ feature' = feature + 1
    /\ feat' = "tests"
    /\ UNCHANGED <<cliVars, taskVars, oobVars, oracle, commandVars, exploreVars, extractVars, flagVars, checkVars, renderVars, recoverVars, inbandVars, detectVars, timedVars, runVars>>

\* a test raised (a failed request, or start_oob_server): detect_features
\* does not catch the exception
FeatRaise ==
    /\ feat \in {"gather", "gather_false"}
    /\ \/ \E t \in Launched : pc[t] = "done" /\ outcome[t] = "raised"
       \/ oob = "raised"
    /\ oob \notin {"serving", "cleanup_return", "cleanup_raise"}
    /\ feat' = "raised"
    /\ UNCHANGED <<cliVars, taskVars, oobVars, oracle, commandVars, exploreVars, extractVars, flagVars, checkVars, renderVars, recoverVars, inbandVars, detectVars, timedVars, feature,
                   feature_results, runVars>>

\* the loop over the features is over: return returner
FeatReturn ==
    /\ feat = "tests"
    /\ feature > Len(features)
    /\ feat' = "returned"
    /\ UNCHANGED <<cliVars, taskVars, oobVars, oracle, commandVars, exploreVars, extractVars, flagVars, checkVars, renderVars, recoverVars, inbandVars, detectVars, timedVars, feature,
                   feature_results, runVars>>

\* get_features on a context in boolean mode, with or without --oob
InitFeatures ==
    /\ opts \in {o \in Options : /\ ~o.body
                                 /\ o.target_in_parameters
                                 /\ o.tamper = "none"
                                 /\ o.time_nesting = 0
                                 /\ ~o.inband
                                 /\ o.true_string
                                 /\ ~o.true_code
                                 /\ o.concurrency = MaxConcurrency
                                 /\ o.oob \in {"none", "host:port"}}
    /\ phase = "cli"
    /\ context = NullContext
    /\ TaskInit
    /\ oob = "unused"
    /\ runner = "none"
    /\ oracle \in Oracles(FeaturePayloads, MaxFeatureFlips)
    /\ detect = "idle"
    /\ injector = 1
    /\ returner = <<>>
    /\ TimedIdle
    /\ InbandIdle
    /\ CommandIdle
    /\ ExploreIdle
    /\ ExtractIdle
    /\ FlagIdle
    /\ CheckIdle
    /\ RenderIdle
    /\ RecoverIdle
    /\ feat = "tests"
    /\ feature = 1
    /\ feature_results = <<>>
    /\ run = "idle"
    /\ detected_injections = <<>>
    /\ feature_injection = 0
    /\ feature_requests = 0
    /\ extraction_requests = 0
    /\ exit_code = 0

NextFeatures ==
    \/ Wrapper
    \/ Start
    \/ FeatLaunchTests
    \/ \E t \in Tasks : Acquire(t)
    \/ \E t \in Tasks : Respond(t)
    \/ \E t \in Tasks : Fail(t)
    \/ OobEnter
    \/ OobRunnerSetup
    \/ OobRunnerSetupFails
    \/ OobSiteStart
    \/ OobSiteStartFails
    \/ TestOobCheck
    \/ TestOobBodyEnds
    \/ OobCleanup
    \/ FeatGatherFalseTests
    \/ FeatGather
    \/ FeatGatherFalse
    \/ FeatRaise
    \/ FeatReturn

SpecFeatures == InitFeatures /\ [][NextFeatures]_vars

(***************************************************************************)
(* inband.py: _tree_traverse                                               *)
(***************************************************************************)
_MAX_DEPTH == 20
_MAX_CHILDREN == 500
_MAX_REQUESTS == 5000

\* the most children a node of a finite document has
MaxWidth == 2
\* the most levels a finite document has below its root element
MaxHeight == 2

\* The documents the server answers from.  A path is a sequence of child
\* indices and <<1>> is the root element /*[1].  A document has a root that
\* the union reaches or not; every node above the last level has width
\* children (or matches whatever index is asked, every_index), and the nodes
\* of level height show text (or no level does, every_depth: a path matches
\* however deep it is).  In a mixed document the children of even index
\* show text on every level.  One document reaches the request limit, the
\* one that matches every index and shows text on the last level; the
\* documents without text have at most one child per node.
Shapes ==
    {[root |-> FALSE, every_index |-> FALSE, width |-> 0,
      every_depth |-> FALSE, height |-> 1, mixed |-> FALSE]}
    \cup {s \in [root : {TRUE}, every_index : BOOLEAN, width : 0..MaxWidth,
                 every_depth : BOOLEAN, height : 1..MaxHeight,
                 mixed : BOOLEAN] :
             /\ s.every_index => /\ s.width = 0
                                 /\ s.height = MaxHeight
                                 /\ ~s.every_depth
                                 /\ ~s.mixed
             /\ s.every_depth => s.height = 1 /\ s.width <= 1
             /\ s.mixed => s.height > 1}

\* the match verdict get_response_with_match returns for the union of a path
Match(path) ==
    /\ shape.root
    /\ shape.every_depth \/ Len(path) - 1 <= shape.height
    /\ \A k \in 2..Len(path) : shape.every_index \/ path[k] <= shape.width
    /\ \A k \in 2..(Len(path) - 1) : ~(shape.mixed /\ path[k] % 2 = 0)

\* whether extract_text_from_diff(results_body, probe_body) yields lines
Lines(path) ==
    /\ ~shape.every_depth
    /\ \/ Len(path) - 1 = shape.height
       \/ shape.mixed /\ path[Len(path)] % 2 = 0

\* what a probe of the path shows: no match, a match with lines, or a match
\* without
Classify(path) ==
    IF ~Match(path) THEN "no_results"
    ELSE IF Lines(path) THEN "text" ELSE "has_children"

\* mutant: the depth of an entry is not limited
WithinLimitsAnyDepth(entry) == ~(entry.child_idx > _MAX_CHILDREN)

\* not (depth > _MAX_DEPTH or child_idx > _MAX_CHILDREN)
WithinLimits(entry) ==
    ~(entry.depth > _MAX_DEPTH \/ entry.child_idx > _MAX_CHILDREN)

\* stack.pop() takes the last entry
Top == stack[Len(stack)]
Popped == SubSeq(stack, 1, Len(stack) - 1)

\* the baseline probe of the root element, and the initial stack
TraverseRoot ==
    /\ phase = "started"
    /\ traverse = "root"
    /\ requests' = requests + 1
    /\ current_path' = <<1>>
    /\ IF ~Match(<<1>>)
       THEN /\ traverse' = "returned"
            /\ UNCHANGED stack
       ELSE /\ traverse' = "loop"
            /\ stack' = <<[parent_path |-> <<1>>, child_idx |-> 1, depth |-> 1]>>
    /\ UNCHANGED <<cliVars, taskVars, oobVars, oracle, commandVars, exploreVars, extractVars, flagVars, checkVars, renderVars, recoverVars, shape, all_text, probes,
                   detectVars, timedVars, featVars, runVars>>

\* if requests >= _MAX_REQUESTS: break
TraverseLimit ==
    /\ traverse = "loop"
    /\ stack # <<>>
    /\ requests >= _MAX_REQUESTS
    /\ traverse' = "returned"
    /\ UNCHANGED <<cliVars, taskVars, oobVars, oracle, commandVars, exploreVars, extractVars, flagVars, checkVars, renderVars, recoverVars, shape, stack, requests,
                   all_text, current_path, probes, detectVars, timedVars,
                   featVars, runVars>>

\* mutant: an entry beyond the limits is left on the stack
TraverseSkipKeepsEntry ==
    /\ traverse = "loop"
    /\ stack # <<>>
    /\ requests < _MAX_REQUESTS
    /\ ~WithinLimits(Top)
    /\ UNCHANGED vars

\* an entry beyond the depth or the children limit is dropped
TraverseSkip ==
    /\ traverse = "loop"
    /\ stack # <<>>
    /\ requests < _MAX_REQUESTS
    /\ ~WithinLimits(Top)
    /\ stack' = Popped
    /\ UNCHANGED <<cliVars, taskVars, oobVars, oracle, commandVars, exploreVars, extractVars, flagVars, checkVars, renderVars, recoverVars, traverse, shape, requests,
                   all_text, current_path, probes, detectVars, timedVars,
                   featVars, runVars>>

\* mutant: the children of a path that showed text are probed as well
TraverseProbeDescendsText ==
    /\ traverse = "loop"
    /\ stack # <<>>
    /\ requests < _MAX_REQUESTS
    /\ WithinLimits(Top)
    /\ LET entry == Top
           path == Append(entry.parent_path, entry.child_idx)
           sibling == [entry EXCEPT !.child_idx = entry.child_idx + 1]
           child == [parent_path |-> path, child_idx |-> 1,
                     depth |-> entry.depth + 1]
       IN  /\ current_path' = path
           /\ requests' = requests + 1
           /\ probes' = Append(probes, path)
           /\ IF ~Match(path)
              THEN /\ stack' = Popped
                   /\ UNCHANGED all_text
              ELSE IF Lines(path)
              THEN /\ all_text' = Append(all_text, path)
                   /\ stack' = Append(Append(Popped, sibling), child)
              ELSE /\ stack' = Append(Append(Popped, sibling), child)
                   /\ UNCHANGED all_text
    /\ UNCHANGED <<cliVars, taskVars, oobVars, oracle, commandVars, exploreVars, extractVars, flagVars, checkVars, renderVars, recoverVars, traverse, shape,
                   detectVars, timedVars, featVars, runVars>>

\* mutant: the entry of the first child is pushed before the entry of the
\* next sibling, which is then popped first
TraverseProbeSiblingFirst ==
    /\ traverse = "loop"
    /\ stack # <<>>
    /\ requests < _MAX_REQUESTS
    /\ WithinLimits(Top)
    /\ LET entry == Top
           path == Append(entry.parent_path, entry.child_idx)
           sibling == [entry EXCEPT !.child_idx = entry.child_idx + 1]
           child == [parent_path |-> path, child_idx |-> 1,
                     depth |-> entry.depth + 1]
       IN  /\ current_path' = path
           /\ requests' = requests + 1
           /\ probes' = Append(probes, path)
           /\ IF ~Match(path)
              THEN /\ stack' = Popped
                   /\ UNCHANGED all_text
              ELSE IF Lines(path)
              THEN /\ all_text' = Append(all_text, path)
                   /\ stack' = Append(Popped, sibling)
              ELSE /\ stack' = Append(Append(Popped, child), sibling)
                   /\ UNCHANGED all_text
    /\ UNCHANGED <<cliVars, taskVars, oobVars, oracle, commandVars, exploreVars, extractVars, flagVars, checkVars, renderVars, recoverVars, traverse, shape,
                   detectVars, timedVars, featVars, runVars>>

\* an entry is popped and probed, and the stack is fed from the answer
TraverseProbe ==
    /\ traverse = "loop"
    /\ stack # <<>>
    /\ requests < _MAX_REQUESTS
    /\ WithinLimits(Top)
    /\ LET entry == Top
           path == Append(entry.parent_path, entry.child_idx)
           sibling == [entry EXCEPT !.child_idx = entry.child_idx + 1]
           child == [parent_path |-> path, child_idx |-> 1,
                     depth |-> entry.depth + 1]
       IN  /\ current_path' = path
           /\ requests' = requests + 1
           /\ probes' = Append(probes, path)
           /\ IF ~Match(path)
              THEN /\ stack' = Popped
                   /\ UNCHANGED all_text
              ELSE IF Lines(path)
              THEN /\ all_text' = Append(all_text, path)
                   /\ stack' = Append(Popped, sibling)
              ELSE /\ stack' = Append(Append(Popped, sibling), child)
                   /\ UNCHANGED all_text
    /\ UNCHANGED <<cliVars, taskVars, oobVars, oracle, commandVars, exploreVars, extractVars, flagVars, checkVars, renderVars, recoverVars, traverse, shape,
                   detectVars, timedVars, featVars, runVars>>

\* the stack is empty: return all_text, requests
TraverseReturn ==
    /\ traverse = "loop"
    /\ stack = <<>>
    /\ traverse' = "returned"
    /\ UNCHANGED <<cliVars, taskVars, oobVars, oracle, commandVars, exploreVars, extractVars, flagVars, checkVars, renderVars, recoverVars, shape, stack, requests,
                   all_text, current_path, probes, detectVars, timedVars,
                   featVars, runVars>>

\* _tree_traverse called by inband_extract on an in-band context
InitInband ==
    /\ opts \in {o \in Options : /\ ~o.body
                                 /\ o.target_in_parameters
                                 /\ o.tamper = "none"
                                 /\ o.time_nesting = 0
                                 /\ o.inband
                                 /\ o.true_string
                                 /\ ~o.true_code
                                 /\ o.concurrency = MaxConcurrency
                                 /\ o.oob = "none"}
    /\ phase = "cli"
    /\ context = NullContext
    /\ TaskInit
    /\ oob = "unused"
    /\ runner = "none"
    /\ oracle = {}
    /\ detect = "idle"
    /\ injector = 1
    /\ returner = <<>>
    /\ TimedIdle
    /\ RecoverIdle
    /\ RenderIdle
    /\ CheckIdle
    /\ FlagIdle
    /\ ExtractIdle
    /\ ExploreIdle
    /\ CommandIdle
    /\ traverse = "root"
    /\ shape \in Shapes
    /\ stack = <<>>
    /\ requests = 0
    /\ all_text = <<>>
    /\ current_path = <<>>
    /\ probes = <<>>
    /\ FeatIdle
    /\ run = "idle"
    /\ detected_injections = <<>>
    /\ feature_injection = 0
    /\ feature_requests = 0
    /\ extraction_requests = 0
    /\ exit_code = 0

NextInband ==
    \/ Wrapper
    \/ Start
    \/ TraverseRoot
    \/ TraverseLimit
    \/ TraverseSkip
    \/ TraverseProbe
    \/ TraverseReturn

SpecInband == InitInband /\ [][NextInband]_vars

(***************************************************************************)
(* ldap_blind_time.py: get_text and get_node_name                          *)
(***************************************************************************)
\* string.ascii_lowercase + string.ascii_uppercase + string.digits
AlphaNumerics ==
    <<"a", "b", "c", "d", "e", "f", "g", "h", "i", "j", "k", "l", "m",
      "n", "o", "p", "q", "r", "s", "t", "u", "v", "w", "x", "y", "z",
      "A", "B", "C", "D", "E", "F", "G", "H", "I", "J", "K", "L", "M",
      "N", "O", "P", "Q", "R", "S", "T", "U", "V", "W", "X", "Y", "Z",
      "0", "1", "2", "3", "4", "5", "6", "7", "8", "9">>

letters == AlphaNumerics \o <<"_", "-", ".", ":">>

charset ==
    AlphaNumerics \o <<" ", "_", "-", "@", ".", "{", "}", ":", "/", "?", "!",
                       "=", "+", "#", "(", ")", "'", "\"">>

\* the character list each function scans
CharactersOf(function) == IF function = "get_text" THEN charset ELSE letters

\* longest string recovered
MaxLen == 2

\* the characters the strings of the document are made of: some of each
\* kind of the character lists
SecretCharacters == {"a", "Z", "9", ":", " ", "'", "\""}

Range(seq) == {seq[k] : k \in DOMAIN seq}

\* the strings over the character list of a function, up to MaxLen long
Secrets(function) ==
    UNION {[1..n -> SecretCharacters \cap Range(CharactersOf(function))] :
               n \in 0..MaxLen}

\* the string literal of the condition f"substring({path},{i},1)='{char}'"
FormatLiteral(char) == <<"'", char, "'">>

\* An XPath string literal opened by a single quote ends at the next single
\* quote; the literal is well formed when that quote is its last character.
ClosingQuote(literal) ==
    CHOOSE k \in 2..Len(literal) :
        /\ literal[k] = "'"
        /\ \A j \in 2..(k - 1) : literal[j] # "'"

WellFormed(literal) == ClosingQuote(literal) = Len(literal)

LiteralValue(literal) == SubSeq(literal, 2, Len(literal) - 1)

\* the answers a truthful evaluator can give to the condition: the truth of
\* the comparison, or whatever the server does with a malformed expression
Answers(i, char) ==
    IF WellFormed(FormatLiteral(char))
    THEN {<<secret[i]>> = LiteralValue(FormatLiteral(char))}
    ELSE BOOLEAN

\* one is_true call of the inner loop, and the loop control around it
RecoverAsk ==
    /\ recover = "scan"
    /\ position <= Len(secret)
    /\ LET chars == CharactersOf(recover_function)
       IN \E answer \in Answers(position, chars[scan]) :
            IF answer
            THEN /\ text' = Append(text, chars[scan])
                 /\ position' = position + 1
                 /\ scan' = 1
            ELSE /\ UNCHANGED text
                 /\ IF scan < Len(chars)
                    THEN scan' = scan + 1 /\ UNCHANGED position
                    ELSE scan' = 1 /\ position' = position + 1
    /\ UNCHANGED <<cliVars, taskVars, oobVars, oracle, commandVars, exploreVars, extractVars, flagVars, checkVars, renderVars, inbandVars, recover,
                   recover_function, secret, detectVars, timedVars, featVars,
                   runVars>>

\* range(1, length + 1) is exhausted: return text
RecoverReturn ==
    /\ recover = "scan"
    /\ position > Len(secret)
    /\ recover' = "returned"
    /\ UNCHANGED <<cliVars, taskVars, oobVars, oracle, commandVars, exploreVars, extractVars, flagVars, checkVars, renderVars, inbandVars,
                   recover_function, secret, position, scan, text, detectVars,
                   timedVars, featVars, runVars>>

\* get_text(s, path, len(secret)) or get_node_name(s, path, len(secret));
\* the script builds no AttackContext
InitRecover ==
    /\ opts \in {o \in Options : /\ ~o.body
                                 /\ o.target_in_parameters
                                 /\ o.tamper = "none"
                                 /\ o.time_nesting = 0
                                 /\ ~o.inband
                                 /\ o.true_string
                                 /\ ~o.true_code
                                 /\ o.concurrency = 1
                                 /\ o.oob = "none"}
    /\ phase = "cli"
    /\ context = NullContext
    /\ TaskInit
    /\ oob = "unused"
    /\ runner = "none"
    /\ oracle = {}
    /\ detect = "idle"
    /\ injector = 1
    /\ returner = <<>>
    /\ TimedIdle
    /\ InbandIdle
    /\ CommandIdle
    /\ ExploreIdle
    /\ ExtractIdle
    /\ FlagIdle
    /\ CheckIdle
    /\ RenderIdle
    /\ FeatIdle
    /\ run = "idle"
    /\ detected_injections = <<>>
    /\ feature_injection = 0
    /\ feature_requests = 0
    /\ extraction_requests = 0
    /\ exit_code = 0
    /\ recover = "scan"
    /\ recover_function \in {"get_text", "get_node_name"}
    /\ secret \in Secrets(recover_function)
    /\ position = 1
    /\ scan = 1
    /\ text = <<>>

NextRecover ==
    \/ RecoverAsk
    \/ RecoverReturn

SpecRecover == InitRecover /\ [][NextRecover]_vars

(***************************************************************************)
(* Properties of the request pipeline and of the command-line wrapper.     *)
(***************************************************************************)
\* number of HTTP requests in flight
InFlight == Cardinality({t \in Tasks : pc[t] = "inflight"})

\* C1: in every reachable state the number of HTTP requests in flight is at
\* most context.concurrency, and a request is in flight only while its task
\* holds a semaphore permit.
C1_SemaphoreInvariant ==
    /\ InFlight <= context.concurrency
    /\ \A t \in Tasks : pc[t] = "inflight" => held[t]

\* C1 witness: all the permits of a context with more than one permit are
\* taken by requests in flight while a further task waits for a permit.
C1_Witness ==
    /\ context.concurrency > 1
    /\ InFlight = context.concurrency
    /\ \E t \in Tasks : pc[t] = "waiting"

\* C4 as stated: a check whose request failed has, once it is over, sent
\* the request a second time and returned a verdict instead of raising.
C4_RetriedOnceThenFalse ==
    \A t \in Tasks :
        (kind[t] = "check" /\ pc[t] = "done" /\ failures[t] >= 1)
            => (sent[t] = 2 /\ outcome[t] \in {"true", "false"})

\* C4 amended: a check sends its request once and never again; when that
\* request fails the check is over at once and has raised the exception.
C4_NoRetry ==
    \A t \in Tasks :
        kind[t] = "check" =>
            /\ sent[t] <= 1
            /\ failures[t] >= 1 =>
                   (pc[t] = "done" /\ outcome[t] = "raised" /\ failures[t] = 1)

\* C4 witness: the request of a check has failed and the check has raised.
C4_Witness ==
    \E t \in Tasks :
        /\ kind[t] = "check"
        /\ failures[t] = 1
        /\ sent[t] = 1
        /\ outcome[t] = "raised"

\* C8: a context built with time_based true has concurrency 1 whatever -c
\* was given, and then at most one request is in flight at any instant.
C8_TimeBasedSerial ==
    /\ phase \in {"built", "started"} =>
           context.time_based = (opts.time_nesting # 0)
    /\ context.time_based => (context.concurrency = 1 /\ InFlight <= 1)

\* C8 witness: --time with -c 2; one request is in flight, another waits.
C8_Witness ==
    /\ context.time_based
    /\ opts.concurrency > 1
    /\ InFlight = 1
    /\ \E t \in Tasks : pc[t] = "waiting"

\* the options ask for in-band mode without a usable oracle, or with --time
InbandMisuse(o) ==
    o.inband /\ (o.time_nesting # 0 \/ (~o.true_code /\ ~o.true_string))

\* C9: no built context has inband and time_based both true, an inband
\* context has a match_function built from --true-string / --true-code, and
\* an invocation that asks otherwise is rejected with no request sent.
C9_ModeExclusion ==
    /\ ~(context.inband /\ context.time_based)
    /\ context.inband => context.match_function = "from_options"
    /\ phase \in {"built", "started"} => context.inband = opts.inband
    /\ InbandMisuse(opts) =>
           (phase \in {"cli", "usage_error"} /\ \A t \in Tasks : sent[t] = 0)

\* C9 witness: --inband with --time, otherwise valid, has been rejected.
C9_Witness ==
    /\ phase = "usage_error"
    /\ opts.inband
    /\ opts.time_nesting # 0
    /\ ~opts.body
    /\ opts.target_in_parameters
    /\ opts.tamper # "invalid"

\* C10 as stated: whenever start_oob_server has been left with the runner
\* set up, the runner has been cleaned up.
C10_RunnerCleanedOnEveryExit ==
    (oob \in {"returned", "raised"} /\ runner # "none") => runner = "cleaned"

(***************************************************************************)
(* Properties of injection detection.                                      *)
(***************************************************************************)
\* what the server answers for a payload
OracleAnswer(p) == p \in oracle

\* every probe of catalog entry i is answered as expected
ProbesMatch(i) ==
    \A k \in 1..Len(injectors[i].expected) :
        OracleAnswer(PayloadOffset(i) + k) = injectors[i].expected[k]

\* C3: detect_injections returns, in catalog order, exactly the catalog
\* injections all of whose rendered test payloads are answered as expected.
C3_DetectsExactlyMatching ==
    detect = "returned" =>
        /\ \A a, b \in DOMAIN returner : a < b => returner[a] < returner[b]
        /\ \A i \in Injectors :
               (\E a \in DOMAIN returner : returner[a] = i) <=> ProbesMatch(i)

\* C3 witness: detection has returned two injections, the first of them
\* not the first of the catalog, and has left out others.
C3_Witness ==
    /\ detect = "returned"
    /\ Len(returner) = 2
    /\ returner[1] > 1

\* the server answers every payload alike
Degenerate == oracle = {} \/ InjectionPayloads \subseteq oracle

\* C5: against a degenerate oracle detect_injections returns the empty list
\* and the run exits with code 1 instead of selecting an injection.
C5_DegenerateOracleDetectsNothing ==
    Degenerate =>
        /\ detect = "returned" => returner = <<>>
        /\ run \notin {"selected", "features", "probed", "yielded"}
        /\ run = "exit" => exit_code = 1

\* C5 witness: the run against a server that answers true to every payload
\* has exited with code 1.
C5_Witness ==
    /\ InjectionPayloads \subseteq oracle
    /\ detect = "returned"
    /\ run = "exit"
    /\ exit_code = 1

(***************************************************************************)
(* Properties of feature detection.                                        *)
(***************************************************************************)
\* positive test k of feature f resolves true: the oracle answers true, and
\* for a test_oob test the context has oob_details (it returns False
\* without a request otherwise)
TestResolvesTrue(f, k) ==
    /\ OracleAnswer(TestPayload(f, k))
    /\ features[f].oob => context.oob_details # "none"

\* C2: detect_features reports a feature enabled if and only if every one
\* of its positive tests is answered true and none of its false_tests is
\* answered true.
C2_EnabledIffTestsPass ==
    \A f \in Features :
        f <= Len(feature_results) =>
            (feature_results[f] <=>
                /\ \A k \in 1..features[f].tests : TestResolvesTrue(f, k)
                /\ \A k \in 1..features[f].false_tests :
                       ~OracleAnswer(FalseTestPayload(f, k)))

\* C2 witness: every positive test of xpath-2 is answered true and so is
\* its false test; detect_features has returned with xpath-2 disabled and
\* xpath-3, which has no false test, enabled.
C2_Witness ==
    /\ feat = "returned"
    /\ \A k \in 1..features[1].tests : OracleAnswer(TestPayload(1, k))
    /\ OracleAnswer(FalseTestPayload(1, 1))
    /\ ~feature_results[1]
    /\ feature_results[2]

(***************************************************************************)
(* Properties of timed injection detection.                                *)
(***************************************************************************)
\* the largest true_time among the accepted pairs
LargestAcceptedTrueTime ==
    CHOOSE m \in 0..MaxTime :
        /\ \E k \in DOMAIN accepted_pairs : accepted_pairs[k].t = m
        /\ \A k \in DOMAIN accepted_pairs : accepted_pairs[k].t <= m

\* C7: detect_injections_timed accepts a catalog injection exactly when its
\* true_time is above twice its false_time and above one second, and the
\* threshold it returns is the midpoint of the accepted pair with the
\* largest true_time, or 0 when nothing was accepted.
C7_TimedAcceptanceAndThreshold ==
    /\ [][(timed = "true_request" /\ timed' = "render") =>
            IF true_time' > 2 * false_time /\ true_time' > OneSecond
            THEN detected' = Append(detected, injector)
            ELSE detected' = detected]_vars
    /\ [](timed = "returned" =>
            IF detected = <<>> THEN threshold_doubled = 0
            ELSE \E k \in DOMAIN accepted_pairs :
                    /\ accepted_pairs[k].t = LargestAcceptedTrueTime
                    /\ threshold_doubled =
                           accepted_pairs[k].t + accepted_pairs[k].f)

\* C7 witness: two injections were accepted, the second with the larger
\* true_time, and the returned threshold is the midpoint of the second pair.
C7_Witness ==
    /\ timed = "returned"
    /\ Len(detected) = 2
    /\ accepted_pairs[2].t > accepted_pairs[1].t
    /\ accepted_pairs[2].f # accepted_pairs[1].f
    /\ threshold_doubled = accepted_pairs[2].t + accepted_pairs[2].f

(***************************************************************************)
(* Properties of setup_context.                                            *)
(***************************************************************************)
\* C6: when detection returns no injection the run exits with a non-zero
\* code and sends no feature-probe or extraction request; otherwise the
\* injection handed to feature probing and the one in the context yielded to
\* the extraction are the first element of the detection result.
C6_FirstInjectionOrExit ==
    /\ (run \notin {"idle", "get_injections", "detected"}
            /\ detected_injections = <<>>) =>
           /\ run = "exit"
           /\ exit_code # 0
           /\ feature_requests = 0
           /\ extraction_requests = 0
    /\ run = "exit" => feature_requests = 0 /\ extraction_requests = 0
    /\ run \in {"features", "probed", "yielded"} /\ ~context.time_based =>
           feature_injection = detected_injections[1]
    /\ feature_requests > 0 => feature_injection = detected_injections[1]
    /\ run = "yielded" => context.injection = detected_injections[1]
    /\ extraction_requests > 0 => context.injection = detected_injections[1]

\* C6 witness: detection returned two injections, the features were probed
\* and the extraction has made a request with the context that was yielded.
C6_Witness ==
    /\ run = "yielded"
    /\ Len(detected_injections) = 2
    /\ feature_requests > 0
    /\ extraction_requests > 0
    /\ context.injection = detected_injections[1]

(***************************************************************************)
(* Properties of the in-band tree traversal.                               *)
(***************************************************************************)
\* C11: _tree_traverse sends at most 5000 requests, the root probe included,
\* probes no path more than 20 levels below the root element and no child
\* index above 500.
C11_TraversalLimits ==
    /\ requests <= 5000
    /\ Len(current_path) - 1 <= 20
    /\ \A k \in 2..Len(current_path) : current_path[k] <= 500

\* C11 witness: a child of index 500 has been probed and the entry of its
\* sibling 501 has been taken off the stack without a probe.
C11_Witness ==
    /\ traverse = "loop"
    /\ requests > 500
    /\ \E k \in DOMAIN probes : probes[k][Len(probes[k])] = 500
    /\ \A k \in DOMAIN probes : probes[k][Len(probes[k])] <= 500
    /\ \A k \in DOMAIN stack : stack[k].child_idx <= 500

\* the parent path and the child index of a probed path
ParentOf(path) == SubSeq(path, 1, Len(path) - 1)
IndexOf(path) == path[Len(path)]
SiblingAfter(path) == Append(ParentOf(path), IndexOf(path) + 1)
SiblingBefore(path) == Append(ParentOf(path), IndexOf(path) - 1)

\* the path was probed before the k-th probe
ProbedBefore(path, k) ==
    \/ k > 1 /\ probes[k - 1] = path
    \/ \E m \in 1..(k - 1) : probes[m] = path

\* the path was probed after the k-th probe
ProbedAfter(path, k) ==
    \/ k < Len(probes) /\ probes[k + 1] = path
    \/ \E m \in (k + 1)..Len(probes) : probes[m] = path

\* the lines of the probes that showed text, in the order of the probes
TextProbes == SelectSeq(probes, LAMBDA q : Classify(q) = "text")

\* No probed path lies below a path answered without a match or with text,
\* and none is a later sibling of a path answered without a match: the
\* path above a probed path matched without text, and the sibling before it
\* was probed earlier and matched.
ProbesFollowAnswers ==
    \A k \in DOMAIN probes :
        /\ \A n \in 2..(Len(probes[k]) - 1) :
               Classify(SubSeq(probes[k], 1, n)) = "has_children"
        /\ IndexOf(probes[k]) > 1 =>
               /\ Classify(SiblingBefore(probes[k])) # "no_results"
               /\ ProbedBefore(SiblingBefore(probes[k]), k)
        /\ Len(probes[k]) > 2 => ProbedBefore(ParentOf(probes[k]), k)

\* C12 as stated: a probe answered false ends its parent's range and has no
\* probed descendant; one answered true with lines is recorded, is followed
\* by its next sibling and has no probed child; one answered true without
\* lines is followed by its first child and by its next sibling.
C12_ProbeConsequences ==
    traverse = "returned" =>
        /\ ProbesFollowAnswers
        /\ all_text = TextProbes
        /\ \A k \in DOMAIN probes :
               /\ Classify(probes[k]) # "no_results" =>
                      ProbedAfter(SiblingAfter(probes[k]), k)
               /\ Classify(probes[k]) = "has_children" =>
                      ProbedAfter(Append(probes[k], 1), k)

\* C12 (corrected): the same, where the next sibling and the first child are
\* probed only within the limits: the sibling if the index is below 500, the
\* child if the path is less than 20 levels deep, and neither once the
\* request limit has ended the traversal.
C12_ProbeConsequencesWithinLimits ==
    traverse = "returned" =>
        /\ ProbesFollowAnswers
        /\ all_text = TextProbes
        /\ stack = <<>> =>
               \A k \in DOMAIN probes :
                   /\ (Classify(probes[k]) # "no_results"
                           /\ IndexOf(probes[k]) < 500) =>
                          ProbedAfter(SiblingAfter(probes[k]), k)
                   /\ (Classify(probes[k]) = "has_children"
                           /\ Len(probes[k]) - 1 < 20) =>
                          ProbedAfter(Append(probes[k], 1), k)

\* C12 witness: a traversal that emptied its stack has met all three
\* answers: a path without a match, one with text and one without.
C12_Witness ==
    /\ traverse = "returned"
    /\ stack = <<>>
    /\ \E k \in DOMAIN probes : Classify(probes[k]) = "no_results"
    /\ \E k \in DOMAIN probes :
           /\ Classify(probes[k]) = "text"
           /\ IndexOf(probes[k]) > 1
    /\ \E k \in DOMAIN probes :
           /\ Classify(probes[k]) = "has_children"
           /\ IndexOf(probes[k]) > 1

(***************************************************************************)
(* Properties of the character recovery.                                   *)
(***************************************************************************)
\* C13: called with the length of a string over its character list and
\* answered truthfully, get_text (and get_node_name) returns that string.
C13_RecoveryReturnsSecret ==
    recover = "returned" => text = secret

(***************************************************************************)
(* Properties of the delay payload.                                        *)
(***************************************************************************)
\* the number of occurrences of count((//.) in a payload
Occurrences(expr) ==
    Cardinality({k \in DOMAIN expr : expr[k] = "count((//.)"})

\* C14: make_delay_payload(1) is count((//.)), make_delay_payload(k) wraps
\* make_delay_payload(k-1) for k >= 2, and the delay expression of every
\* time-based context holds count((//.) exactly as often as the nesting
\* given to --time says.
C14_DelayPayloadNesting ==
    /\ make_delay_payload(1) = BasePayload
    /\ \A k \in 2..MaxNesting :
           make_delay_payload(k) = WrapPayload(make_delay_payload(k - 1))
    /\ (phase \in {"built", "started"} /\ context.time_based) =>
           Occurrences(context.time_delay_expr) = opts.time_nesting

(***************************************************************************)
(* injections.py, attack.py: the templates of the catalog and their        *)
(* rendering.  A string is the sequence of its characters; in a template   *)
(* the replacement fields {working} and {expression} are one element each. *)
(* The payload of a callable entry is built with E of the xpath package:   *)
(* it is written as the template of the string the operators & (and), []   *)
(* (predicate) and add_path put together.                                  *)
(***************************************************************************)
test_template_payloads ==
    <<
      \* integer
      <<
        <<"{working}", " ", "a", "n", "d", " ", "1", "=", "1">>,
        <<"{working}", " ", "a", "n", "d", " ", "1", "=", "2">> >>,
      \* string - single quote
      <<
        <<"{working}", "'", " ", "a", "n", "d", " ", "'", "1", "'", "=",
          "'", "1">>,
        <<"{working}", "'", " ", "a", "n", "d", " ", "'", "1", "'", "=",
          "'", "2">> >>,
      \* string - single quote - or
      <<
        <<"{working}", "'", " ", "o", "r", " ", "t", "r", "u", "e", "(",
          ")", " ", "a", "n", "d", " ", "'", "1", "'", "=", "'", "1">>,
        <<"{working}", "'", " ", "o", "r", " ", "f", "a", "l", "s", "e",
          "(", ")", " ", "a", "n", "d", " ", "'", "1", "'", "=", "'", "1">> >>,
      \* string - double quote
      <<
        <<"{working}", "\"", " ", "a", "n", "d", " ", "\"", "1", "\"", "=",
          "\"", "1">>,
        <<"{working}", "\"", " ", "a", "n", "d", " ", "\"", "1", "\"", "=",
          "\"", "2">> >>,
      \* string - double quote - or
      <<
        <<"{working}", "\"", " ", "o", "r", " ", "t", "r", "u", "e", "(",
          ")", " ", "a", "n", "d", " ", "\"", "1", "\"", "=", "\"", "1">>,
        <<"{working}", "\"", " ", "o", "r", " ", "f", "a", "l", "s", "e",
          "(", ")", " ", "a", "n", "d", " ", "\"", "1", "\"", "=", "\"", "1">> >>,
      \* attribute name - prefix
      <<
        <<"1", "=", "1", " ", "a", "n", "d", " ", "{working}">>,
        <<"1", "=", "2", " ", "a", "n", "d", " ", "{working}">> >>,
      \* attribute name - postfix
      <<
        <<"{working}", " ", "a", "n", "d", " ", "n", "o", "t", " ", "1",
          "=", "2", " ", "a", "n", "d", " ", "{working}">>,
        <<"{working}", " ", "a", "n", "d", " ", "1", "=", "2", " ", "a",
          "n", "d", " ", "{working}">> >>,
      \* element name - prefix
      <<
        <<".", "[", "t", "r", "u", "e", "(", ")", "]", "/", "{working}">>,
        <<".", "[", "f", "a", "l", "s", "e", "(", ")", "]", "/", "{working}">> >>,
      \* element name - postfix
      <<
        <<"{working}", "[", "t", "r", "u", "e", "(", ")", "]">>,
        <<"{working}", "[", "f", "a", "l", "s", "e", "(", ")", "]">> >>,
      \* function call - last string parameter - single quote
      <<
        <<"{working}", "'", ")", " ", "a", "n", "d", " ", "t", "r", "u",
          "e", "(", ")", " ", "a", "n", "d", " ", "s", "t", "r", "i", "n",
          "g", "(", "'", "1", "'", "=", "'", "1">>,
        <<"{working}", "'", ")", " ", "a", "n", "d", " ", "f", "a", "l",
          "s", "e", "(", ")", " ", "a", "n", "d", " ", "s", "t", "r", "i",
          "n", "g", "(", "'", "1", "'", "=", "'", "1">> >>,
      \* function call - last string parameter - double quote
      <<
        <<"{working}", "\"", ")", " ", "a", "n", "d", " ", "t", "r", "u",
          "e", "(", ")", " ", "a", "n", "d", " ", "s", "t", "r", "i", "n",
          "g", "(", "\"", "1", "\"", "=", "\"", "1">>,
        <<"{working}", "\"", ")", " ", "a", "n", "d", " ", "f", "a", "l",
          "s", "e", "(", ")", " ", "a", "n", "d", " ", "s", "t", "r", "i",
          "n", "g", "(", "\"", "1", "\"", "=", "\"", "1">> >>,
      \* other elements - last string parameter - double quote
      <<
        <<"{working}", "\"", ")", " ", "a", "n", "d", " ", "f", "a", "l",
          "s", "e", "(", ")", "]", " ", "|", " ", "/", "/", "*", "[", "t",
          "r", "u", "e", "(", ")", " ", "a", "n", "d", " ", "s", "t", "r",
          "i", "n", "g", "(", "\"", "1", "\"", "=", "\"", "1">>,
        <<"{working}", "\"", ")", " ", "a", "n", "d", " ", "f", "a", "l",
          "s", "e", "(", ")", "]", " ", "|", " ", "/", "/", "*", "[", "f",
          "a", "l", "s", "e", "(", ")", " ", "a", "n", "d", " ", "s", "t",
          "r", "i", "n", "g", "(", "\"", "1", "\"", "=", "\"", "1">> >> >>

payload_templates ==
    <<
      \* integer
      <<"{working}", " ", "a", "n", "d", " ", "{expression}">>,
      \* string - single quote
      <<"{working}", "'", " ", "a", "n", "d", " ", "{expression}", " ", "a",
        "n", "d", " ", "'", "1", "'", "=", "'", "1">>,
      \* string - single quote - or
      <<"{working}", "'", " ", "o", "r", " ", "{expression}", " ", "a", "n",
        "d", " ", "'", "1", "'", "=", "'", "1">>,
      \* string - double quote
      <<"{working}", "\"", " ", "a", "n", "d", " ", "{expression}", " ",
        "a", "n", "d", " ", "\"", "1", "\"", "=", "\"", "1">>,
      \* string - double quote - or
      <<"{working}", "\"", " ", "o", "r", " ", "{expression}", " ", "a",
        "n", "d", " ", "\"", "1", "\"", "=", "\"", "1">>,
      \* attribute name - prefix:
      \* lambda working, expression: expression & E(working)
      <<"{expression}", " ", "a", "n", "d", " ", "{working}">>,
      \* attribute name - postfix:
      \* lambda working, expression: working & expression & E(working)
      <<"{working}", " ", "a", "n", "d", " ", "{expression}", " ", "a", "n",
        "d", " ", "{working}">>,
      \* element name - prefix:
      \* lambda working, expression: E('.')[expression].add_path('/' + working)
      <<".", "[", "{expression}", "]", "/", "{working}">>,
      \* element name - postfix:
      \* lambda working, expression: E(working)[expression]
      <<"{working}", "[", "{expression}", "]">>,
      \* function call - last string parameter - single quote
      <<"{working}", "'", ")", " ", "a", "n", "d", " ", "{expression}", " ",
        "a", "n", "d", " ", "s", "t", "r", "i", "n", "g", "(", "'", "1",
        "'", "=", "'", "1">>,
      \* function call - last string parameter - double quote
      <<"{working}", "\"", ")", " ", "a", "n", "d", " ", "{expression}",
        " ", "a", "n", "d", " ", "s", "t", "r", "i", "n", "g", "(", "\"",
        "1", "\"", "=", "\"", "1">>,
      \* other elements - last string parameter - double quote
      <<"{working}", "\"", ")", " ", "a", "n", "d", " ", "f", "a", "l", "s",
        "e", "(", ")", "]", " ", "|", " ", "/", "/", "*", "[",
        "{expression}", " ", "a", "n", "d", " ", "s", "t", "r", "i", "n",
        "g", "(", "\"", "1", "\"", "=", "\"", "1">> >>

\* str.format: every replacement field is replaced by its argument
RECURSIVE Format(_, _, _)
Format(template, working, expr) ==
    IF template = <<>> THEN <<>>
    ELSE (IF Head(template) = "{working}" THEN working
          ELSE IF Head(template) = "{expression}" THEN expr
          ELSE <<Head(template)>>) \o Format(Tail(template), working, expr)

\* Injection.test_payloads with the templates written out: no test template
\* has a field {expression}
RenderTestPayloads(i, working) ==
    [k \in DOMAIN test_template_payloads[i] |->
        [payload |-> Format(test_template_payloads[i][k], working, <<>>),
         expected |-> injectors[i].expected[k]]]

\* mutant: the working value and the expression change places
CallInjectionSwapped(i, working, expr) ==
    Format(payload_templates[i], expr, working)

\* Injection.__call__
CallInjection(i, working, expr) ==
    Format(payload_templates[i], working, expr)

\* the lengths of working values and the characters they are made of
MaxWorking == 2
WorkingCharacters == {"1", "a", "'"}

RECURSIVE StringsUpTo(_, _)
StringsUpTo(S, n) ==
    IF n = 0 THEN {<<>>}
    ELSE LET shorter == StringsUpTo(S, n - 1)
         IN  shorter \cup {Append(w, c) : w \in shorter, c \in S}

\* the expressions the injection is called with
Expressions ==
    { <<"1", "=", "1">>, <<"1", "=", "2">>,
      <<"t", "r", "u", "e", "(", ")">>,
      <<"f", "a", "l", "s", "e", "(", ")">>,
      <<"n", "o", "t", " ", "1", "=", "2">>,
      <<"'", "1", "'", "=", "'", "1">>, <<>> }

\* injection.test_payloads(working_value)
RenderTests ==
    /\ render = "test_payloads"
    /\ rendered_tests' = RenderTestPayloads(catalog_entry, working_value)
    /\ render' = "rendered"
    /\ UNCHANGED <<cliVars, taskVars, oobVars, oracle, commandVars, exploreVars, extractVars, flagVars, checkVars, recoverVars, inbandVars,
                   detectVars, timedVars, featVars, runVars, catalog_entry,
                   working_value, expression, rendered>>

\* injection(working_value, expression)
RenderCall ==
    /\ render = "rendered"
    /\ \E e \in Expressions :
           /\ expression' = e
           /\ rendered' = CallInjection(catalog_entry, working_value, e)
    /\ render' = "called"
    /\ UNCHANGED <<cliVars, taskVars, oobVars, oracle, commandVars, exploreVars, extractVars, flagVars, checkVars, recoverVars, inbandVars,
                   detectVars, timedVars, featVars, runVars, catalog_entry,
                   working_value, rendered_tests>>

InitRender ==
    /\ opts \in {o \in Options : /\ ~o.body
                                 /\ o.target_in_parameters
                                 /\ o.tamper = "none"
                                 /\ o.time_nesting = 0
                                 /\ ~o.inband
                                 /\ o.true_string
                                 /\ ~o.true_code
                                 /\ o.concurrency = 1
                                 /\ o.oob = "none"}
    /\ phase = "cli"
    /\ context = NullContext
    /\ TaskInit
    /\ oob = "unused"
    /\ runner = "none"
    /\ oracle = {}
    /\ detect = "idle"
    /\ injector = 1
    /\ returner = <<>>
    /\ TimedIdle
    /\ InbandIdle
    /\ CommandIdle
    /\ ExploreIdle
    /\ ExtractIdle
    /\ FlagIdle
    /\ CheckIdle
    /\ RecoverIdle
    /\ FeatIdle
    /\ run = "idle"
    /\ detected_injections = <<>>
    /\ feature_injection = 0
    /\ feature_requests = 0
    /\ extraction_requests = 0
    /\ exit_code = 0
    /\ render = "test_payloads"
    /\ catalog_entry \in Injectors
    /\ working_value \in StringsUpTo(WorkingCharacters, MaxWorking)
    /\ rendered_tests = <<>>
    /\ expression = <<>>
    /\ rendered = <<>>

NextRender ==
    \/ RenderTests
    \/ RenderCall

SpecRender == InitRender /\ [][NextRender]_vars

(***************************************************************************)
(* Properties of the rendered probes.                                      *)
(***************************************************************************)
\* the place of {expression} in a payload template
ExpressionAt(i) ==
    CHOOSE k \in DOMAIN payload_templates[i] :
        payload_templates[i][k] = "{expression}"

\* the rendered text of a payload template before and after {expression}
PayloadPrefix(i, working) ==
    Format(SubSeq(payload_templates[i], 1, ExpressionAt(i) - 1), working, <<>>)

PayloadSuffix(i, working) ==
    Format(SubSeq(payload_templates[i], ExpressionAt(i) + 1,
                  Len(payload_templates[i])), working, <<>>)

StartsWith(probe, prefix) ==
    /\ Len(probe) >= Len(prefix)
    /\ SubSeq(probe, 1, Len(prefix)) = prefix

EndsWith(probe, suffix) ==
    /\ Len(probe) >= Len(suffix)
    /\ SubSeq(probe, Len(probe) - Len(suffix) + 1, Len(probe)) = suffix

\* probe is the payload template of entry i rendered with the working value
\* and some expression
InstanceOf(probe, i, working) ==
    /\ Len(probe) >= Len(PayloadPrefix(i, working)) + Len(PayloadSuffix(i, working))
    /\ StartsWith(probe, PayloadPrefix(i, working))
    /\ EndsWith(probe, PayloadSuffix(i, working))

\* the text an instance has at {expression}
Substituted(probe, i, working) ==
    SubSeq(probe, Len(PayloadPrefix(i, working)) + 1,
           Len(probe) - Len(PayloadSuffix(i, working)))

\* the entries whose probes close the string literal themselves
ClosingProbes == {"string - single quote", "string - double quote"}

\* C15 as stated: the rendered probes of every catalog entry are instances
\* of the entry's payload template with the same working value, so that
\* they differ only in the text at {expression}.
C15_ProbesAreInstances ==
    render \in {"rendered", "called"} =>
        \A k \in DOMAIN rendered_tests :
            InstanceOf(rendered_tests[k].payload, catalog_entry, working_value)

\* C15: for every catalog entry with a format-string payload other than
\* "string - single quote" and "string - double quote", both rendered probes
\* are instances of the payload template with the same working value and
\* with different expressions, and calling the injection with the
\* expression of a probe gives that probe; the probes of the two entries
\* named start as the template does up to {expression}, are no instances
\* of it, and differ from each other in their last character only.
C15_ProbesAreInstancesOfFormatStrings ==
    render \in {"rendered", "called"} =>
        LET i == catalog_entry
            w == working_value
            t == rendered_tests[1].payload
            f == rendered_tests[2].payload
        IN  IF injectors[i].name \in ClosingProbes
            THEN /\ StartsWith(t, PayloadPrefix(i, w))
                 /\ StartsWith(f, PayloadPrefix(i, w))
                 /\ ~InstanceOf(t, i, w)
                 /\ ~InstanceOf(f, i, w)
                 /\ Len(t) = Len(f)
                 /\ SubSeq(t, 1, Len(t) - 1) = SubSeq(f, 1, Len(f) - 1)
                 /\ t # f
            ELSE ~injectors[i].callable =>
                 /\ InstanceOf(t, i, w)
                 /\ InstanceOf(f, i, w)
                 /\ Substituted(t, i, w) # Substituted(f, i, w)
                 /\ Substituted(t, i, w) \in Expressions
                 /\ Substituted(f, i, w) \in Expressions
                 /\ (render = "called" /\ expression = Substituted(t, i, w))
                        => rendered = t
                 /\ (render = "called" /\ expression = Substituted(f, i, w))
                        => rendered = f

C15_Witness ==
    /\ render = "called"
    /\ injectors[catalog_entry].name =
           "other elements - last string parameter - double quote"
    /\ Len(working_value) = MaxWorking
    /\ rendered = rendered_tests[2].payload
    /\ rendered_tests[1].expected
    /\ ~rendered_tests[2].expected

(***************************************************************************)
(* attack.py: check, with the request it builds.  The server answers a     *)
(* request by what the request holds: server is the set of parameter maps  *)
(* whose response makes check return True (match_function in boolean mode, *)
(* the time the response takes in time-based mode).                        *)
(***************************************************************************)
\* AttackContext.target_parameter_value
target_parameter_value == parameters[target_parameter]

\* the payloads check is called with
CheckPayloads ==
    {<<"1", "=", "2">>,
     <<"1", "=", "1", " ", "o", "r", " ", "1", "=", "2">>}

\* the injections the context is started with (0 for None)
CheckInjections == {0, 1, 3}

\* E(f"{payload} and {context.time_delay_expr}")
TimedPayload(ctx, p) == p \o <<" ", "a", "n", "d", " ">> \o ctx.time_delay_expr

\* the value check gives to the target parameter (lines 140-147)
InjectedValue(ctx, working, p) ==
    IF ctx.injection # 0
    THEN IF ctx.time_based
         THEN CallInjection(ctx.injection, working, TimedPayload(ctx, p))
         ELSE CallInjection(ctx.injection, working, p)
    ELSE p

\* the requests check can make for payload p on a context built from
\* --parameters
CheckRequests(p) ==
    {[InitialParameters EXCEPT ![target_parameter] = InjectedValue(
          [injection |-> i, time_based |-> tb,
           time_delay_expr |-> make_delay_payload(1)],
          InitialParameters[target_parameter], p)] :
        i \in CheckInjections, tb \in BOOLEAN}

\* the servers: each answers a request by the expression injected into it
Servers ==
    {UNION {CheckRequests(p) : p \in T} : T \in SUBSET CheckPayloads}

\* async with context.start(injection)
CheckStart ==
    /\ phase = "built"
    /\ phase' = "started"
    /\ \E i \in CheckInjections : context' = [context EXCEPT !.injection = i]
    /\ semaphore' = context.concurrency
    /\ UNCHANGED <<opts, pc, kind, payload, held, sent, failures, outcome,
                   oobVars, procVars>>

\* mutant: the target parameter is replaced in context.parameters itself
CheckCallInPlace(q) ==
    /\ phase = "started"
    /\ check_pc[q] = "idle"
    /\ \E p \in CheckPayloads :
           /\ check_payload' = [check_payload EXCEPT ![q] = p]
           /\ parameters' = [parameters EXCEPT ![target_parameter] =
                                 InjectedValue(context, target_parameter_value, p)]
           /\ args' = [args EXCEPT ![q] = parameters']
    /\ check_pc' = [check_pc EXCEPT ![q] = "waiting"]
    /\ UNCHANGED <<cliVars, taskVars, oobVars, oracle, commandVars, exploreVars, extractVars, flagVars, renderVars, recoverVars,
                   inbandVars, detectVars, timedVars, featVars, runVars,
                   server, verdict, elapsed, matched>>

\* check(context, payload) up to `async with context.semaphore`: the copy
\* of the parameter map gets the injected value (lines 139-152; no tamper
\* function is set)
CheckCall(q) ==
    /\ phase = "started"
    /\ check_pc[q] = "idle"
    /\ \E p \in CheckPayloads :
           /\ check_payload' = [check_payload EXCEPT ![q] = p]
           /\ args' = [args EXCEPT ![q] =
                          [parameters EXCEPT ![target_parameter] =
                              InjectedValue(context, target_parameter_value, p)]]
    /\ check_pc' = [check_pc EXCEPT ![q] = "waiting"]
    /\ UNCHANGED <<cliVars, taskVars, oobVars, oracle, commandVars, exploreVars, extractVars, flagVars, renderVars, recoverVars,
                   inbandVars, detectVars, timedVars, featVars, runVars,
                   parameters, server, verdict, elapsed, matched>>

\* the semaphore is entered and the request is sent (lines 154-162)
CheckRequest(q) ==
    /\ check_pc[q] = "waiting"
    /\ semaphore > 0
    /\ semaphore' = semaphore - 1
    /\ check_pc' = [check_pc EXCEPT ![q] = "inflight"]
    /\ UNCHANGED <<cliVars, pc, kind, payload, held, sent, failures, outcome,
                   oobVars, oracle, commandVars, exploreVars, extractVars, flagVars, renderVars, recoverVars, inbandVars,
                   detectVars, timedVars, featVars, runVars, parameters,
                   server, check_payload, args, verdict, elapsed,
                   matched>>

\* the response is read, the semaphore is left and the boolean is returned
\* (lines 156-165)
CheckReturn(q) ==
    /\ check_pc[q] = "inflight"
    /\ verdict' = [verdict EXCEPT ![q] = args[q] \in server]
    /\ semaphore' = semaphore + 1
    /\ check_pc' = [check_pc EXCEPT ![q] = "returned"]
    /\ UNCHANGED <<cliVars, pc, kind, payload, held, sent, failures, outcome,
                   oobVars, oracle, commandVars, exploreVars, extractVars, flagVars, renderVars, recoverVars, inbandVars,
                   detectVars, timedVars, featVars, runVars, parameters,
                   server, check_payload, args, elapsed, matched>>

InitCheck ==
    /\ opts \in {o \in Options : /\ ~o.body
                                 /\ o.target_in_parameters
                                 /\ o.tamper = "none"
                                 /\ o.time_nesting \in {0, 1}
                                 /\ ~o.inband
                                 /\ o.true_string
                                 /\ ~o.true_code
                                 /\ o.oob = "none"}
    /\ phase = "cli"
    /\ context = NullContext
    /\ TaskInit
    /\ oob = "unused"
    /\ runner = "none"
    /\ oracle = {}
    /\ detect = "idle"
    /\ injector = 1
    /\ returner = <<>>
    /\ TimedIdle
    /\ InbandIdle
    /\ CommandIdle
    /\ ExploreIdle
    /\ ExtractIdle
    /\ FlagIdle
    /\ RecoverIdle
    /\ RenderIdle
    /\ FeatIdle
    /\ run = "idle"
    /\ detected_injections = <<>>
    /\ feature_injection = 0
    /\ feature_requests = 0
    /\ extraction_requests = 0
    /\ exit_code = 0
    /\ parameters = InitialParameters
    /\ server \in Servers
    /\ check_pc = [q \in Queries |-> "idle"]
    /\ check_payload = [q \in Queries |-> <<>>]
    /\ args = [q \in Queries |-> InitialParameters]
    /\ verdict = [q \in Queries |-> FALSE]
    /\ elapsed = [q \in Queries |-> 0]
    /\ matched = [q \in Queries |-> FALSE]

NextCheck ==
    \/ Wrapper
    \/ CheckStart
    \/ \E q \in Queries : CheckCall(q)
    \/ \E q \in Queries : CheckRequest(q)
    \/ \E q \in Queries : CheckReturn(q)

SpecCheck == InitCheck /\ [][NextCheck]_vars

\* C16: two calls of check with the same payload return the same boolean,
\* whatever other calls run in between, and no call changes the parameter
\* dict of the context or any other field of the started context.
C16_CheckIdempotent ==
    /\ [](\A q1, q2 \in Queries :
              (/\ check_pc[q1] = "returned"
               /\ check_pc[q2] = "returned"
               /\ check_payload[q1] = check_payload[q2])
              => verdict[q1] = verdict[q2])
    /\ [][phase = "started" =>
              (parameters' = parameters /\ context' = context)]_vars

C16_Witness ==
    /\ context.injection # 0
    /\ \A q \in Queries : check_pc[q] = "returned"
    /\ check_payload[1] = check_payload[NumQueries]
    /\ check_payload[2] # check_payload[1]
    /\ verdict[1] /\ verdict[NumQueries] /\ ~verdict[2]
    /\ parameters = InitialParameters
    /\ args[1] # parameters

(***************************************************************************)
(* Properties of the order of the injection probes.                        *)
(***************************************************************************)
\* the rendered probes of catalog entry i
ProbesOf(i) ==
    {test_payloads(i)[k].payload : k \in DOMAIN test_payloads(i)}

\* a probe of catalog entry i has been created and has not completed
Pending(i) ==
    \E t \in Tasks : /\ pc[t] \in {"waiting", "inflight"}
                     /\ payload[t] \in ProbesOf(i)

\* the probes of catalog entry i have been handed to gather
Created(i) == i < injector \/ (i = injector /\ detect = "gather")

PositiveTests(f) == {TestPayload(f, k) : k \in 1..features[f].tests}

FalseTests(f) == {FalseTestPayload(f, k) : k \in 1..features[f].false_tests}

\* C18: the features are probed one after another in declaration order:
\* every pending request belongs to the feature at hand, whose results are
\* appended before the next feature starts; the positive tests of a feature
\* are created together, and its false_tests are created only when every
\* positive test has completed and returned true.
C18_FeaturesInOrder ==
    /\ [](\A t \in Tasks :
              pc[t] \in {"waiting", "inflight"} =>
                  /\ feat \in {"gather", "gather_false", "raised"}
                  /\ feat = "gather" => payload[t] \in PositiveTests(feature)
                  /\ feat = "gather_false" => payload[t] \in FalseTests(feature)
                  /\ payload[t] \in PositiveTests(feature) \cup FalseTests(feature))
    /\ [](feat \in {"tests", "gather", "gather_false"} =>
              Len(feature_results) = feature - 1)
    /\ []((feat = "gather" /\ ~features[feature].oob) =>
              \A k \in 1..features[feature].tests :
                  pc[k] # "idle" /\ payload[k] = TestPayload(feature, k))
    /\ [][/\ feature' \in {feature, feature + 1}
          /\ feature' # feature =>
                 \A t \in Tasks : pc[t] \notin {"waiting", "inflight"}
          /\ (feat # "gather_false" /\ feat' = "gather_false") =>
                 /\ feat = "gather"
                 /\ \A k \in 1..features[feature].tests :
                        pc[k] = "done" /\ outcome[k] = "true"
                 /\ \A k \in 1..features[feature].false_tests :
                        /\ pc'[k] = "waiting"
                        /\ payload'[k] = FalseTestPayload(feature, k)]_vars

C18_Witness ==
    /\ feat = "gather_false"
    /\ features[feature].name = "xpath-3.1"
    /\ feature_results = <<FALSE, TRUE>>
    /\ pc[1] = "inflight"
    /\ payload[1] = FalseTestPayload(feature, 1)

(***************************************************************************)
(* cli.py: setup_context with forced features.  The detection is taken as  *)
(* one step that returns a list; its steps are those of detect_injections  *)
(* and detect_injections_timed above.                                      *)
(***************************************************************************)
\* the feature names given to --enable and --disable
ForcedNames == {"normalize-space", "xpath-2", "oob-http"}

\* the lists a detection returns
DetectionResults == {<<>>, <<1>>, <<3, 2>>}

\* what detect_features can report: test_oob returns False when the context
\* has no oob_details
Reports(o) ==
    {[n \in FeatureNames |-> n \in S] :
        S \in {T \in SUBSET {"normalize-space", "xpath-2", "saxon", "oob-http"} :
                  "oob-http" \in T => o.oob # "none"}}

\* get_injections runs detect_injections on a started context and returns
SetupDetectInjections ==
    /\ phase = "started"
    /\ run = "get_injections"
    /\ ~context.time_based
    /\ detect = "idle"
    /\ detect' = "returned"
    /\ \E r \in DetectionResults : returner' = r
    /\ UNCHANGED <<cliVars, taskVars, oobVars, oracle, commandVars, exploreVars, extractVars, flagVars, checkVars,
                   renderVars, recoverVars, inbandVars, timedVars, injector,
                   featVars, runVars>>

\* get_injections_timed runs detect_injections_timed on a started context
\* and returns the list with the threshold
SetupDetectInjectionsTimed ==
    /\ phase = "started"
    /\ run = "get_injections"
    /\ context.time_based
    /\ timed = "idle"
    /\ timed' = "returned"
    /\ \E r \in DetectionResults :
           /\ detected' = r
           /\ threshold_doubled' =
                  CalibratedThreshold(MaxTime, 0, r)
    /\ UNCHANGED <<cliVars, taskVars, oobVars, oracle, commandVars, exploreVars, extractVars, flagVars, checkVars,
                   renderVars, recoverVars, inbandVars, detectVars, slow,
                   false_time, true_time, accepted_pairs, best_true_time,
                   best_false_time, featVars, runVars>>

\* a run with forced features, in boolean or in time-based mode
InitSetup ==
    /\ opts \in {o \in Options : /\ ~o.body
                                 /\ o.target_in_parameters
                                 /\ o.tamper = "none"
                                 /\ o.time_nesting \in {0, 1}
                                 /\ ~o.inband
                                 /\ o.true_string = (o.time_nesting = 0)
                                 /\ ~o.true_code
                                 /\ o.concurrency = 1
                                 /\ o.oob \in {"none", "host:port"}}
    /\ phase = "cli"
    /\ context = NullContext
    /\ TaskInit
    /\ oob = "unused"
    /\ runner = "none"
    /\ oracle = {}
    /\ detect = "idle"
    /\ injector = 1
    /\ returner = <<>>
    /\ TimedIdle
    /\ InbandIdle
    /\ CommandIdle
    /\ ExploreIdle
    /\ ExtractIdle
    /\ CheckIdle
    /\ RenderIdle
    /\ RecoverIdle
    /\ FeatIdle
    /\ run = "get_injections"
    /\ detected_injections = <<>>
    /\ feature_injection = 0
    /\ feature_requests = 0
    /\ extraction_requests = 0
    /\ exit_code = 0
    /\ enable \in SUBSET ForcedNames
    /\ disable \in SUBSET ForcedNames
    /\ context_features = [n \in FeatureNames |-> "absent"]
    /\ available \in Reports(opts)

NextSetup ==
    \/ Wrapper
    \/ Start
    \/ SetupDetectInjections
    \/ SetupDetectInjectionsTimed
    \/ SetupGetInjections
    \/ SetupGetInjectionsTimed
    \/ SetupCheckDetected
    \/ SetupForceNormalizeSpace
    \/ SetupGetFeatures
    \/ SetupFeatureRequest
    \/ SetupFeaturesDone
    \/ SetupStart
    \/ OobEnter
    \/ OobRunnerSetup
    \/ OobRunnerSetupFails
    \/ OobSiteStart
    \/ OobSiteStartFails
    \/ SetupOobYield
    \/ SetupOobRaise
    \/ ExtractionRequest

SpecSetup == InitSetup /\ [][NextSetup]_vars

(***************************************************************************)
(* Properties of the feature flags after setup_context.                    *)
(***************************************************************************)
\* the dict as wrapper leaves it
ForcedFeatures ==
    ForceFeatures([n \in FeatureNames |-> "absent"], enable, disable)

\* C19: in time-based mode setup_context sends no feature-probe request,
\* enters normalize-space as True, leaves every other entry of
\* context.features as wrapper made it, and does not start the OOB server.
C19_TimeBasedSetup ==
    (context.time_based /\ run # "idle") =>
        /\ feature_requests = 0
        /\ run # "features"
        /\ oob = "unused"
        /\ runner = "none"
        /\ run # "oob_server"
        /\ IF run \in {"probed", "yielded"}
           THEN context_features =
                    [ForcedFeatures EXCEPT !["normalize-space"] = "True"]
           ELSE context_features = ForcedFeatures

C19_Witness ==
    /\ context.time_based
    /\ run = "yielded"
    /\ extraction_requests > 0
    /\ opts.oob = "host:port"
    /\ "oob-http" \in enable
    /\ "normalize-space" \in disable
    /\ context_features["oob-http"] = "True"
    /\ context_features["normalize-space"] = "True"
    /\ context_features["saxon"] = "absent"
    /\ available["saxon"]

\* C20: in boolean mode, once setup_context has filled context.features, a
\* feature named in --disable is False, a feature named in --enable only is
\* True, and every other feature has the value detect_features reported.
C20_ForcedFeaturesKept ==
    (~context.time_based /\ run \in {"probed", "oob_server", "yielded", "raised"}) =>
        \A n \in FeatureNames :
            context_features[n] =
                IF n \in disable THEN "False"
                ELSE IF n \in enable THEN "True"
                ELSE IF available[n] THEN "True"
                ELSE "False"

C20_Witness ==
    /\ ~context.time_based
    /\ run = "yielded"
    /\ "xpath-2" \in enable \cap disable
    /\ "normalize-space" \in enable \ disable
    /\ "oob-http" \in disable \ enable
    /\ available = [n \in FeatureNames |-> n \in {"xpath-2", "saxon", "oob-http"}]
    /\ context_features["xpath-2"] = "False"
    /\ context_features["normalize-space"] = "True"
    /\ context_features["oob-http"] = "False"
    /\ context_features["saxon"] = "True"
    /\ context_features["linux"] = "False"

(***************************************************************************)
(* attack.py: check on a context whose threshold setup_context has set.    *)
(* The response of the server is the time it takes and what                *)
(* match_function makes of its status and body.                            *)
(***************************************************************************)
\* the thresholds detect_injections_timed can return with a detected
\* injection, doubled
Thresholds ==
    {CalibratedThreshold(pair[1], pair[2], <<1>>) :
        pair \in {pr \in (0..MaxTime) \X (0..MaxTime) : Accepts(pr[1], pr[2])}}

\* context = context._replace(time_threshold=threshold)
ReplaceThreshold ==
    /\ phase = "built"
    /\ context.time_based
    /\ context.time_threshold = 0
    /\ \E th \in Thresholds : context' = [context EXCEPT !.time_threshold = th]
    /\ UNCHANGED <<opts, phase, taskVars, oobVars, procVars>>

\* lines 155-165: elapsed >= context.time_threshold in time-based mode,
\* context.match_function(resp.status, body) otherwise
CheckVerdict(ctx, e, m) ==
    IF ctx.time_based THEN 2 * e >= ctx.time_threshold ELSE m

\* the response is read after e seconds, the semaphore is left and the
\* boolean is returned (lines 155-165)
CheckRespond(q) ==
    /\ check_pc[q] = "inflight"
    /\ \E e \in 0..MaxTime, m \in BOOLEAN :
           /\ elapsed' = [elapsed EXCEPT ![q] = e]
           /\ matched' = [matched EXCEPT ![q] =
                              m /\ context.match_function = "from_options"]
           /\ verdict' = [verdict EXCEPT ![q] =
                              CheckVerdict(context, e, matched'[q])]
    /\ semaphore' = semaphore + 1
    /\ check_pc' = [check_pc EXCEPT ![q] = "returned"]
    /\ UNCHANGED <<cliVars, pc, kind, payload, held, sent, failures, outcome,
                   oobVars, oracle, commandVars, exploreVars, extractVars, flagVars, renderVars, recoverVars, inbandVars,
                   detectVars, timedVars, featVars, runVars, parameters,
                   server, check_payload, args>>

InitCheckTimed ==
    /\ opts \in {o \in Options : /\ ~o.body
                                 /\ o.target_in_parameters
                                 /\ o.tamper = "none"
                                 /\ o.time_nesting \in {0, 1}
                                 /\ o.concurrency = 1
                                 /\ ~o.true_code
                                 /\ ~o.inband
                                 /\ o.oob = "none"}
    /\ phase = "cli"
    /\ context = NullContext
    /\ TaskInit
    /\ oob = "unused"
    /\ runner = "none"
    /\ oracle = {}
    /\ detect = "idle"
    /\ injector = 1
    /\ returner = <<>>
    /\ TimedIdle
    /\ InbandIdle
    /\ CommandIdle
    /\ ExploreIdle
    /\ ExtractIdle
    /\ FlagIdle
    /\ RecoverIdle
    /\ RenderIdle
    /\ FeatIdle
    /\ CheckIdle
    /\ run = "idle"
    /\ detected_injections = <<>>
    /\ feature_injection = 0
    /\ feature_requests = 0
    /\ extraction_requests = 0
    /\ exit_code = 0

NextCheckTimed ==
    \/ Wrapper
    \/ ReplaceThreshold
    \/ CheckStart
    \/ \E q \in Queries : CheckCall(q)
    \/ \E q \in Queries : CheckRequest(q)
    \/ \E q \in Queries : CheckRespond(q)

SpecCheckTimed == InitCheckTimed /\ [][NextCheckTimed]_vars

\* ({payload}) and {context.time_delay_expr}
GroupedTimedPayload(ctx, p) ==
    <<"(">> \o p \o <<")", " ", "a", "n", "d", " ">> \o ctx.time_delay_expr

\* C21: in time-based mode with an injection selected, check hands the
\* injection the expression ({payload}) and {time_delay_expr}, the probe
\* being one parenthesised operand of the conjunction, and it returns true
\* exactly when the elapsed time is at least time_threshold, whatever
\* match_function makes of the status code and the body.
C21_TimedCheck ==
    \A q \in Queries :
        (context.time_based /\ context.injection # 0 /\ check_pc[q] # "idle") =>
            /\ args[q][target_parameter] =
                   CallInjection(context.injection, target_parameter_value,
                                 GroupedTimedPayload(context, check_payload[q]))
            /\ check_pc[q] = "returned" =>
                   (verdict[q] <=> 2 * elapsed[q] >= context.time_threshold)

(***************************************************************************)
(* inband.py: inband_extract, and cli.py: start_attack.  A list of lines   *)
(* is the sequence of its lines; a line is named by the response it was    *)
(* extracted from and its place in that response.                          *)
(***************************************************************************)
\* len(diff_lines) < 50
RowLimit == 50

\* the numbers of lines a diff or a traversal can yield
LineCounts == {0, 1, RowLimit - 1, RowLimit, RowLimit + 1}

\* the n lines extracted from one response
LinesOf(response, n) == [k \in 1..n |-> <<response, k>>]

\* the values of --parameters: with and without a non-target parameter
ParameterDicts == {InitialParameters, [id |-> <<"1">>]}

\* any(k != context.target_parameter for k in context.parameters)
has_union_params == \E k \in DOMAIN parameters : k # target_parameter

\* mutant: the union diff wins a tie
ChooseDiffOnTie(basic, union) ==
    IF Len(union) >= Len(basic) THEN union ELSE basic

\* union_lines if len(union_lines) > len(basic_lines) else basic_lines
ChooseDiff(basic, union) ==
    IF Len(union) > Len(basic) THEN union ELSE basic

\* mutant: the simple-diff lines are returned even when there are none
SimpleResultList(lines) == [kind |-> "list", lines |-> lines]

\* lines 239-251: None without lines, the lines otherwise
SimpleResult(lines) ==
    IF lines = <<>> THEN [kind |-> "None", lines |-> <<>>]
    ELSE [kind |-> "list", lines |-> lines]

\* start_attack: async with setup_context(context) as ctx, if ctx.inband
StartAttack ==
    /\ phase = "started"
    /\ extract = "idle"
    /\ extract' = IF context.inband THEN "phase1" ELSE "get_nodes"
    /\ UNCHANGED <<cliVars, taskVars, oobVars, oracle, commandVars, exploreVars, flagVars, checkVars,
                   renderVars, recoverVars, inbandVars, detectVars, timedVars,
                   featVars, runVars, basic_lines, union_lines, diff_lines,
                   tree_lines, tree_requests, extract_result>>

\* inband_extract, lines 161-203: the false, basic and union responses are
\* fetched and diffed; without union parameters union_body is basic_body
ExtractSimpleDiff ==
    /\ extract = "phase1"
    /\ \E nb \in LineCounts, nu \in LineCounts :
           /\ basic_lines' = LinesOf("basic", nb)
           /\ union_lines' = IF has_union_params THEN LinesOf("union", nu)
                             ELSE basic_lines'
           /\ diff_lines' = ChooseDiff(basic_lines', union_lines')
    /\ extract' = "phase2"
    /\ UNCHANGED <<cliVars, taskVars, oobVars, oracle, commandVars, exploreVars, flagVars, checkVars,
                   renderVars, recoverVars, inbandVars, detectVars, timedVars,
                   featVars, runVars, tree_lines, tree_requests,
                   extract_result>>

\* lines 208-231: _tree_traverse runs and its lines are returned when they
\* are more than the simple-diff lines
ExtractTraverse ==
    /\ extract = "phase2"
    /\ has_union_params /\ Len(diff_lines) < RowLimit
    /\ \E nt \in LineCounts, nr \in 1..2 :
           /\ tree_lines' = LinesOf("tree", nt)
           /\ tree_requests' = nr
    /\ IF Len(tree_lines') > Len(diff_lines)
       THEN /\ extract_result' = [kind |-> "list", lines |-> tree_lines']
            /\ extract' = "returned"
       ELSE /\ extract' = "simple"
            /\ UNCHANGED extract_result
    /\ UNCHANGED <<cliVars, taskVars, oobVars, oracle, commandVars, exploreVars, flagVars, checkVars,
                   renderVars, recoverVars, inbandVars, detectVars, timedVars,
                   featVars, runVars, basic_lines, union_lines, diff_lines>>

\* line 208: the condition of the traversal does not hold
ExtractSkipTraverse ==
    /\ extract = "phase2"
    /\ ~(has_union_params /\ Len(diff_lines) < RowLimit)
    /\ extract' = "simple"
    /\ UNCHANGED <<cliVars, taskVars, oobVars, oracle, commandVars, exploreVars, flagVars, checkVars,
                   renderVars, recoverVars, inbandVars, detectVars, timedVars,
                   featVars, runVars, basic_lines, union_lines, diff_lines,
                   tree_lines, tree_requests, extract_result>>

\* lines 239-251
ExtractReturn ==
    /\ extract = "simple"
    /\ extract_result' = SimpleResult(diff_lines)
    /\ extract' = "returned"
    /\ UNCHANGED <<cliVars, taskVars, oobVars, oracle, commandVars, exploreVars, flagVars, checkVars,
                   renderVars, recoverVars, inbandVars, detectVars, timedVars,
                   featVars, runVars, basic_lines, union_lines, diff_lines,
                   tree_lines, tree_requests>>

\* start_attack: the lines are printed, or get_nodes is called when
\* inband_extract returned None
StartAttackLines ==
    /\ extract = "returned"
    /\ extract' = IF extract_result.kind # "None" THEN "printed" ELSE "get_nodes"
    /\ UNCHANGED <<cliVars, taskVars, oobVars, oracle, commandVars, exploreVars, flagVars, checkVars,
                   renderVars, recoverVars, inbandVars, detectVars, timedVars,
                   featVars, runVars, basic_lines, union_lines, diff_lines,
                   tree_lines, tree_requests, extract_result>>

InitExtract ==
    /\ opts \in {o \in Options : /\ ~o.body
                                 /\ o.target_in_parameters
                                 /\ o.tamper = "none"
                                 /\ o.time_nesting = 0
                                 /\ o.concurrency = 1
                                 /\ o.true_string
                                 /\ ~o.true_code
                                 /\ o.oob = "none"}
    /\ phase = "cli"
    /\ context = NullContext
    /\ TaskInit
    /\ oob = "unused"
    /\ runner = "none"
    /\ oracle = {}
    /\ detect = "idle"
    /\ injector = 1
    /\ returner = <<>>
    /\ TimedIdle
    /\ InbandIdle
    /\ CommandIdle
    /\ ExploreIdle
    /\ ExtractIdle
    /\ FlagIdle
    /\ RecoverIdle
    /\ RenderIdle
    /\ FeatIdle
    /\ run = "idle"
    /\ detected_injections = <<>>
    /\ feature_injection = 0
    /\ feature_requests = 0
    /\ extraction_requests = 0
    /\ exit_code = 0
    /\ parameters \in ParameterDicts
    /\ server = {}
    /\ check_pc = [q \in Queries |-> "idle"]
    /\ check_payload = [q \in Queries |-> <<>>]
    /\ args = [q \in Queries |-> InitialParameters]
    /\ verdict = [q \in Queries |-> FALSE]
    /\ elapsed = [q \in Queries |-> 0]
    /\ matched = [q \in Queries |-> FALSE]

NextExtract ==
    \/ Wrapper
    \/ CheckStart
    \/ StartAttack
    \/ ExtractSimpleDiff
    \/ ExtractTraverse
    \/ ExtractSkipTraverse
    \/ ExtractReturn
    \/ StartAttackLines

SpecExtract == InitExtract /\ [][NextExtract]_vars

\* inband_extract has returned
Returned == extract \in {"returned", "printed", "get_nodes"} /\ context.inband

\* _tree_traverse ran
RanTraversal == tree_requests > 0

\* C22: inband_extract takes the union diff only when it has strictly more
\* lines than the basic diff, runs the traversal exactly when there is a
\* non-target parameter and the chosen diff has fewer than 50 lines,
\* returns the lines of the traversal only when they are strictly more than
\* the lines of the chosen diff, and returns the lines of the chosen diff
\* otherwise.
C22_ExtractChoices ==
    /\ extract \notin {"idle", "phase1", "get_nodes"} =>
           /\ diff_lines \in {basic_lines, union_lines}
           /\ diff_lines # basic_lines => Len(union_lines) > Len(basic_lines)
    /\ Returned =>
           /\ RanTraversal <=> (has_union_params /\ Len(diff_lines) < RowLimit)
           /\ extract_result.kind = "list"
           /\ extract_result.lines \in {tree_lines, diff_lines}
           /\ extract_result.lines # diff_lines =>
                  RanTraversal /\ Len(tree_lines) > Len(diff_lines)

\* C22, with the return value for a chosen diff without lines: the lines of
\* the chosen diff are returned when there are any and the traversal has
\* not yielded more, and None is returned when the chosen diff has no line
\* and the traversal has not yielded any.
C22_ExtractChoicesOrNone ==
    /\ extract \notin {"idle", "phase1", "get_nodes"} =>
           /\ diff_lines \in {basic_lines, union_lines}
           /\ diff_lines = union_lines <=>
                  (Len(union_lines) > Len(basic_lines) \/ union_lines = basic_lines)
    /\ Returned =>
           /\ RanTraversal <=> (has_union_params /\ Len(diff_lines) < RowLimit)
           /\ IF RanTraversal /\ Len(tree_lines) > Len(diff_lines)
              THEN extract_result = [kind |-> "list", lines |-> tree_lines]
              ELSE IF diff_lines # <<>>
              THEN extract_result = [kind |-> "list", lines |-> diff_lines]
              ELSE extract_result = [kind |-> "None", lines |-> <<>>]

\* C22 witness: the union diff has more lines than the basic diff and fewer
\* than 50, the traversal ran and found no more, and the union lines are
\* returned.
C22_Witness ==
    /\ extract = "returned"
    /\ Len(union_lines) = RowLimit - 1
    /\ Len(basic_lines) = 1
    /\ RanTraversal
    /\ Len(tree_lines) = RowLimit - 1
    /\ extract_result = [kind |-> "list", lines |-> union_lines]

\* C29: inband_extract returns None or a list with at least one line; it
\* returns None exactly when the basic diff, the union diff and the
\* traversal, if it ran, all yielded no line; and start_attack goes on to
\* the blind extraction after inband_extract only when it returned None.
C29_NoneOrLines ==
    /\ Returned =>
           /\ extract_result.kind \in {"None", "list"}
           /\ extract_result.kind = "list" => extract_result.lines # <<>>
           /\ extract_result.kind = "None" <=>
                  /\ basic_lines = <<>>
                  /\ union_lines = <<>>
                  /\ RanTraversal => tree_lines = <<>>
    /\ (extract = "get_nodes" /\ context.inband) => extract_result.kind = "None"
    /\ extract = "printed" => extract_result.kind = "list"

\* C29 witness: both diffs and the traversal yielded nothing, None was
\* returned and start_attack has gone on to get_nodes.
C29_Witness ==
    /\ context.inband
    /\ extract = "get_nodes"
    /\ RanTraversal
    /\ basic_lines = <<>> /\ union_lines = <<>> /\ tree_lines = <<>>
    /\ extract_result.kind = "None"

(***************************************************************************)
(* ldap_blind_time.py: explore_node.  A path is the sequence of its child  *)
(* indices, <<1>> for /*[1].  A call of explore_node is a record of its    *)
(* locals, its position (stage) and the kinds of query it has issued so    *)
(* far (asked); is_true answers whatever the server makes it answer.       *)
(***************************************************************************)
\* the most children is_true lets a node have
MaxKids == 2
\* the most levels is_true lets the document have below /*[1]
MaxLevels == 2

\* explore_node(s, path) at its first statement
Call(path) ==
    [path |-> path, stage |-> "name_length", node_length |-> 0,
     num_children |-> 0, i |-> 0, text_length |-> 0, asked |-> <<>>]

ExploreTop == explore_stack[Len(explore_stack)]

\* the topmost call continues as frame
Continue(frame) ==
    [explore_stack EXCEPT ![Len(explore_stack)] = frame]

\* the topmost call returns: the caller, if there is one, goes on to the
\* next i of its loop
Return ==
    LET rest == SubSeq(explore_stack, 1, Len(explore_stack) - 1)
    IN IF rest = <<>> THEN rest
       ELSE [rest EXCEPT ![Len(rest)] = [@ EXCEPT !.i = @ + 1]]

\* node_length = get_node_length(s, path): the queries
\* string-length(name(path))=1, 2, ... up to the first answered true
ExploreNodeLength ==
    /\ explore_stack # <<>>
    /\ ExploreTop.stage = "name_length"
    /\ \E len \in 1..MaxLen :
           explore_stack' = Continue(
               [ExploreTop EXCEPT !.node_length = len,
                                  !.asked = Append(@, "name_length"),
                                  !.stage = "name"])
    /\ UNCHANGED <<cliVars, taskVars, oobVars, oracle, commandVars, extractVars, flagVars,
                   checkVars, renderVars, recoverVars, inbandVars, detectVars,
                   timedVars, featVars, runVars>>

\* node_name = get_node_name(s, path, node_length): at least one query per
\* position
ExploreNodeName ==
    /\ explore_stack # <<>>
    /\ ExploreTop.stage = "name"
    /\ explore_stack' = Continue(
           [ExploreTop EXCEPT !.asked = Append(@, "name_char"),
                              !.stage = "count"])
    /\ UNCHANGED <<cliVars, taskVars, oobVars, oracle, commandVars, extractVars, flagVars,
                   checkVars, renderVars, recoverVars, inbandVars, detectVars,
                   timedVars, featVars, runVars>>

\* mutant: the text of a node is read whatever its number of children
ExploreChildrenThenText ==
    /\ explore_stack # <<>>
    /\ ExploreTop.stage = "count"
    /\ \E n \in IF Len(explore_stack) <= MaxLevels THEN 0..MaxKids ELSE {0} :
           explore_stack' = Continue(
               [ExploreTop EXCEPT !.num_children = n,
                                  !.asked = Append(@, "child_count"),
                                  !.stage = "text_length"])
    /\ UNCHANGED <<cliVars, taskVars, oobVars, oracle, commandVars, extractVars, flagVars,
                   checkVars, renderVars, recoverVars, inbandVars, detectVars,
                   timedVars, featVars, runVars>>

\* num_children = get_number_of_children(s, path) and the test of line 97;
\* for i in range(1, num_children + 1) starts with i = 1
ExploreChildren ==
    /\ explore_stack # <<>>
    /\ ExploreTop.stage = "count"
    /\ \E n \in IF Len(explore_stack) <= MaxLevels THEN 0..MaxKids ELSE {0} :
           explore_stack' = Continue(
               [ExploreTop EXCEPT !.num_children = n,
                                  !.asked = Append(@, "child_count"),
                                  !.i = IF n = 0 THEN 0 ELSE 1,
                                  !.stage = IF n = 0 THEN "text_length"
                                            ELSE "loop"])
    /\ UNCHANGED <<cliVars, taskVars, oobVars, oracle, commandVars, extractVars, flagVars,
                   checkVars, renderVars, recoverVars, inbandVars, detectVars,
                   timedVars, featVars, runVars>>

\* text_length = get_text_length(s, path)
ExploreTextLength ==
    /\ explore_stack # <<>>
    /\ ExploreTop.stage = "text_length"
    /\ \E len \in 0..MaxLen :
           explore_stack' = Continue(
               [ExploreTop EXCEPT !.text_length = len,
                                  !.asked = Append(@, "text_length"),
                                  !.stage = "text"])
    /\ UNCHANGED <<cliVars, taskVars, oobVars, oracle, commandVars, extractVars, flagVars,
                   checkVars, renderVars, recoverVars, inbandVars, detectVars,
                   timedVars, featVars, runVars>>

\* text_value = get_text(s, path, text_length), which asks nothing for
\* length 0
ExploreText ==
    /\ explore_stack # <<>>
    /\ ExploreTop.stage = "text"
    /\ explore_stack' = Continue(
           [ExploreTop EXCEPT !.asked = IF ExploreTop.text_length > 0
                                        THEN Append(@, "text_char") ELSE @,
                              !.stage = "print"])
    /\ UNCHANGED <<cliVars, taskVars, oobVars, oracle, commandVars, extractVars, flagVars,
                   checkVars, renderVars, recoverVars, inbandVars, detectVars,
                   timedVars, featVars, runVars>>

\* print(f"{prefix}{node_name}: {text_value}") and the return
ExplorePrint ==
    /\ explore_stack # <<>>
    /\ ExploreTop.stage = "print"
    /\ explore_stack' = Return
    /\ UNCHANGED <<cliVars, taskVars, oobVars, oracle, commandVars, extractVars, flagVars,
                   checkVars, renderVars, recoverVars, inbandVars, detectVars,
                   timedVars, featVars, runVars>>

\* explore_node(s, f"{path}/*[{i}]", indent + 1)
ExploreRecurse ==
    /\ explore_stack # <<>>
    /\ ExploreTop.stage = "loop"
    /\ ExploreTop.i <= ExploreTop.num_children
    /\ explore_stack' =
           Append(explore_stack, Call(Append(ExploreTop.path, ExploreTop.i)))
    /\ UNCHANGED <<cliVars, taskVars, oobVars, oracle, commandVars, extractVars, flagVars,
                   checkVars, renderVars, recoverVars, inbandVars, detectVars,
                   timedVars, featVars, runVars>>

\* range(1, num_children + 1) is exhausted: the call returns
ExploreLoopEnd ==
    /\ explore_stack # <<>>
    /\ ExploreTop.stage = "loop"
    /\ ExploreTop.i > ExploreTop.num_children
    /\ explore_stack' = Return
    /\ UNCHANGED <<cliVars, taskVars, oobVars, oracle, commandVars, extractVars, flagVars,
                   checkVars, renderVars, recoverVars, inbandVars, detectVars,
                   timedVars, featVars, runVars>>
\* explore_node(s, "/*[1]"); the script builds no AttackContext
InitExplore ==
    /\ opts \in {o \in Options : /\ ~o.body
                                 /\ o.target_in_parameters
                                 /\ o.tamper = "none"
                                 /\ o.time_nesting = 0
                                 /\ ~o.inband
                                 /\ o.true_string
                                 /\ ~o.true_code
                                 /\ o.concurrency = 1
                                 /\ o.oob = "none"}
    /\ phase = "cli"
    /\ context = NullContext
    /\ TaskInit
    /\ oob = "unused"
    /\ runner = "none"
    /\ oracle = {}
    /\ detect = "idle"
    /\ injector = 1
    /\ returner = <<>>
    /\ TimedIdle
    /\ InbandIdle
    /\ CommandIdle
    /\ ExtractIdle
    /\ FlagIdle
    /\ CheckIdle
    /\ RecoverIdle
    /\ RenderIdle
    /\ FeatIdle
    /\ run = "idle"
    /\ detected_injections = <<>>
    /\ feature_injection = 0
    /\ feature_requests = 0
    /\ extraction_requests = 0
    /\ exit_code = 0
    /\ explore_stack = <<Call(<<1>>)>>

NextExplore ==
    \/ ExploreNodeLength
    \/ ExploreNodeName
    \/ ExploreChildren
    \/ ExploreTextLength
    \/ ExploreText
    \/ ExplorePrint
    \/ ExploreRecurse
    \/ ExploreLoopEnd

SpecExplore == InitExplore /\ [][NextExplore]_vars
\* the kinds of query of one node in the order of explore_node
QueryOrder ==
    <<"name_length", "name_char", "child_count", "text_length", "text_char">>

IsPrefix(a, b) == Len(a) <= Len(b) /\ a = SubSeq(b, 1, Len(a))

\* the call has issued every query of its node and of the subtree below it
Finished(frame) ==
    \/ frame.stage = "print"
    \/ frame.stage = "loop" /\ frame.i > frame.num_children

\* C23: the queries of a node are issued in the order name length, name
\* characters, child count; a node counted without children then gets its
\* text-length and text-character queries and no recursion; a node counted
\* with children gets no text query and explore_node recurses into
\* path/*[i] for i = 1..children in increasing i, every query being issued
\* for the innermost node and the step from child i to child i+1 being
\* taken only when the call for child i has issued all the queries of its
\* subtree and returned.
C23_QueryOrder ==
    /\ [](\A k \in DOMAIN explore_stack :
            LET frame == explore_stack[k]
            IN /\ IsPrefix(frame.asked, QueryOrder)
               /\ Len(frame.asked) > 3 => frame.num_children = 0
               /\ frame.stage = "loop" =>
                      /\ frame.num_children > 0
                      /\ frame.asked = SubSeq(QueryOrder, 1, 3)
               /\ k < Len(explore_stack) =>
                      /\ frame.stage = "loop"
                      /\ frame.i \in 1..frame.num_children
                      /\ explore_stack[k + 1].path = Append(frame.path, frame.i))
    /\ [][/\ \A k \in DOMAIN explore_stack :
                 k < Len(explore_stack) =>
                     /\ k \in DOMAIN explore_stack'
                     /\ explore_stack'[k].asked = explore_stack[k].asked
                     /\ explore_stack'[k].i \in
                            {explore_stack[k].i, explore_stack[k].i + 1}
                     /\ explore_stack'[k].i # explore_stack[k].i =>
                            /\ k = Len(explore_stack) - 1
                            /\ Len(explore_stack') = k
                            /\ Finished(ExploreTop)
          /\ Len(explore_stack') > Len(explore_stack) =>
                 /\ ExploreTop.stage = "loop"
                 /\ explore_stack'[Len(explore_stack')].asked = <<>>
          /\ (/\ Len(explore_stack') = Len(explore_stack)
              /\ ExploreTop.stage = "count"
              /\ explore_stack'[Len(explore_stack)].stage = "loop")
                 => explore_stack'[Len(explore_stack)].i = 1]_vars

\* C23 witness: the second child of the second child of the root is being
\* explored and has got its text queries, after the subtrees of the first
\* children have been completed.
C23_Witness ==
    /\ Len(explore_stack) = 3
    /\ explore_stack[1].i = 2
    /\ explore_stack[2].i = 2
    /\ ExploreTop.path = <<1, 2, 2>>
    /\ ExploreTop.asked = QueryOrder

(***************************************************************************)
(* inband.py: _tree_traverse, its termination and its request budget.      *)
(***************************************************************************)
\* the coroutine goes on running and every request is answered
SpecInbandFair == SpecInband /\ WF_vars(NextInband)

\* one iteration of `while stack` without the test of the request limit
\* (lines 114-147) on the stack and the lines of st
UnboundedStep(st) ==
    IF st.stack = <<>> THEN st
    ELSE LET entry == st.stack[Len(st.stack)]
             rest == SubSeq(st.stack, 1, Len(st.stack) - 1)
             path == Append(entry.parent_path, entry.child_idx)
             sibling == [entry EXCEPT !.child_idx = entry.child_idx + 1]
             child == [parent_path |-> path, child_idx |-> 1,
                       depth |-> entry.depth + 1]
         IN IF ~WithinLimits(entry) THEN [st EXCEPT !.stack = rest]
            ELSE IF ~Match(path) THEN [st EXCEPT !.stack = rest]
            ELSE IF Lines(path)
            THEN [stack |-> Append(rest, sibling),
                  all_text |-> Append(st.all_text, path)]
            ELSE [stack |-> Append(Append(rest, sibling), child),
                  all_text |-> st.all_text]

\* n iterations, or as many as it takes to empty the stack
RECURSIVE Iterate(_, _)
Iterate(st, n) ==
    IF n = 0 \/ st.stack = <<>> THEN st
    ELSE IF n = 1 THEN UnboundedStep(st)
    ELSE LET half == Iterate(st, n \div 2)
         IN IF half.stack = <<>> THEN half
            ELSE Iterate(half, n - n \div 2)

\* the lines a traversal without request limit has after twice as many
\* iterations as the limited one can make
UnboundedLines ==
    Iterate([stack |-> <<[parent_path |-> <<1>>, child_idx |-> 1, depth |-> 1]>>,
             all_text |-> <<>>],
            2 * _MAX_REQUESTS).all_text

\* C24: _tree_traverse returns whatever the server answers; every iteration
\* of its loop sends a request, which is counted, or shrinks the stack, or
\* leaves the loop; once the request limit is reached no request is sent
\* and the lines are returned as they are; and the lines returned are a
\* prefix of the lines of a traversal without the limit.
C24_TraversalTerminates ==
    /\ <>(traverse = "returned")
    /\ [][traverse = "loop" =>
              \/ requests' = requests + 1
              \/ Len(stack') < Len(stack)
              \/ traverse' = "returned"]_vars
    /\ [][requests >= _MAX_REQUESTS =>
              requests' = requests /\ all_text' = all_text]_vars
    /\ []((traverse = "returned" /\ all_text # <<>>) =>
              IsPrefix(all_text, UnboundedLines))

\* C24 witness: the server matches a path however deep it is; the entries
\* beyond depth 20 were dropped and the traversal has returned.
C24_Witness ==
    /\ traverse = "returned"
    /\ shape.every_depth
    /\ \E k \in DOMAIN probes : Len(probes[k]) - 1 = _MAX_DEPTH
    /\ stack = <<>>
    /\ requests < _MAX_REQUESTS

(***************************************************************************)
(* Properties of the time-based run.                                       *)
(***************************************************************************)
\* C25: in a time-based run the injection the context is started with, the
\* first accepted one, has its measured false_time below the threshold put
\* into the context and its measured true_time at or above it.
C25_FirstInjectionSeparated ==
    (context.time_based /\ run \in {"selected", "probed", "yielded"}) =>
        /\ 2 * accepted_pairs[1].f < context.time_threshold
        /\ 2 * accepted_pairs[1].t >= context.time_threshold

(***************************************************************************)
(* Properties of the order of the traversal.                               *)
(***************************************************************************)
\* the document has finitely many nodes, all within the limits of the
\* traversal
FiniteDocument == shape.root /\ ~shape.every_index /\ ~shape.every_depth

\* path a comes before path b in document (pre-order) order: a lies above
\* b, or at the first level where they differ a takes the earlier child
DocumentBefore(a, b) ==
    \/ Len(a) < Len(b) /\ a = SubSeq(b, 1, Len(a))
    \/ \E n \in 1..Len(a) :
           /\ n <= Len(b)
           /\ a[n] < b[n]
           /\ SubSeq(a, 1, n - 1) = SubSeq(b, 1, n - 1)

\* C31: on a document within the limits, answered truthfully, every probe
\* in the subtree of child i of a node is made before any probe in the
\* subtree of child i+1, the probes are made in document order, and the
\* lines recorded are in document order as well: a leaf that precedes
\* another in the document has its line earlier in the list.
C31_DocumentOrder ==
    FiniteDocument =>
        /\ \A k \in DOMAIN probes, m \in DOMAIN probes :
               \A n \in 2..Len(probes[k]) :
                   (/\ Len(probes[m]) >= n
                    /\ SubSeq(probes[m], 1, n) =
                           SiblingAfter(SubSeq(probes[k], 1, n))) => k < m
        /\ \A k \in DOMAIN probes, m \in DOMAIN probes :
               k < m => DocumentBefore(probes[k], probes[m])
        /\ \A k \in DOMAIN all_text, m \in DOMAIN all_text :
               k < m => DocumentBefore(all_text[k], all_text[m])
        /\ traverse = "returned" => all_text = TextProbes

\* C31 witness: the traversal of a document with leaves on two levels has
\* returned the two leaves below the first child of the root element and
\* then the second child of the root element, itself a leaf.
C31_Witness ==
    /\ FiniteDocument
    /\ traverse = "returned"
    /\ stack = <<>>
    /\ all_text = << <<1, 1, 1>>, <<1, 1, 2>>, <<1, 2>> >>

(***************************************************************************)
(* Properties of the permits of context.semaphore.                         *)
(***************************************************************************)
\* the tasks that hold a permit
Holders == {t \in Tasks : held[t]}

\* C27: no permit is leaked: on a started context the permits available
\* and the permits held add up to context.concurrency, a task whose request
\* has ended (by a response, an exception or a cancellation) holds none, and
\* once no task is waiting or in flight all context.concurrency permits are
\* available.
C27_PermitsNotLeaked ==
    phase = "started" =>
        /\ semaphore + Cardinality(Holders) = context.concurrency
        /\ \A t \in Tasks : pc[t] \in {"idle", "waiting", "done"} => ~held[t]
        /\ (\A t \in Tasks : pc[t] \in {"idle", "done"}) =>
               semaphore = context.concurrency

\* C27 witness: every task has finished, one with a result, one by an
\* exception and one cancelled after it had sent its request, and all the
\* permits are available again.
C27_Witness ==
    /\ phase = "started"
    /\ \A t \in Tasks : pc[t] = "done"
    /\ \E t \in Tasks : outcome[t] \in {"true", "false", "value"}
    /\ \E t \in Tasks : outcome[t] = "raised"
    /\ \E t \in Tasks : outcome[t] = "cancelled" /\ sent[t] = 1
    /\ semaphore = context.concurrency

(***************************************************************************)
(* The oracle queries of a run that is not interrupted, on a server that   *)
(* answers every request: the queries made on the started context and, in  *)
(* features.py: test_oob, inside the scope of start_oob_server.            *)
(***************************************************************************)
InitFair ==
    /\ opts \in {o \in Options : /\ ~o.body
                                 /\ o.target_in_parameters
                                 /\ o.tamper = "none"
                                 /\ o.time_nesting = 0
                                 /\ ~o.inband
                                 /\ o.true_string
                                 /\ ~o.true_code
                                 /\ o.oob \in {"none", "host:port"}}
    /\ phase = "cli"
    /\ context = NullContext
    /\ TaskInit
    /\ oob \in {"unused", "call"}
    /\ runner = "none"
    /\ ProcIdle

\* no task and no scope is cancelled
NextFair ==
    \/ Wrapper
    \/ Start
    \/ OobEnter
    \/ OobRunnerSetup
    \/ OobRunnerSetupFails
    \/ OobSiteStart
    \/ OobSiteStartFails
    \/ \E how \in {"cleanup_return", "cleanup_raise"} : OobBodyEnds(how)
    \/ OobCleanup
    \/ \E t \in Tasks : Launch(t)
    \/ \E t \in Tasks : Acquire(t)
    \/ \E t \in Tasks : Respond(t)
    \/ \E t \in Tasks : Fail(t)

\* the event loop resumes a coroutine that waits for a permit once one is
\* available, and the server answers every request
Fairness ==
    \A t \in Tasks : WF_vars(Acquire(t)) /\ WF_vars(Respond(t))

SpecFair == InitFair /\ [][NextFair]_vars /\ Fairness

\* C28: every oracle query that has reached the semaphore completes,
\* however many queries were launched together, and it completes only from
\* a request in flight that holds a permit, so that it has acquired one on
\* the way; a task takes a permit only when it holds none, one permit at a
\* time.
C28_EveryQueryCompletes ==
    /\ \A t \in Tasks :
           (pc[t] \in {"waiting", "inflight"}) ~> (pc[t] = "done" /\ ~held[t])
    /\ [][\A t \in Tasks :
              /\ (pc'[t] = "done" /\ pc[t] # "done") =>
                     (pc[t] = "inflight" /\ held[t])
              /\ (held'[t] /\ ~held[t]) =>
                     /\ pc[t] = "waiting"
                     /\ semaphore' = semaphore - 1
                     /\ \A u \in Tasks \ {t} : held'[u] = held[u]]_vars

\* C28 witness: inside the scope of the OOB server a context with one permit
\* has more queries than permits: one has completed, one is in flight and
\* one waits for the permit.
C28_Witness ==
    /\ oob = "serving"
    /\ context.concurrency = 1
    /\ \E t \in Tasks : pc[t] = "done" /\ outcome[t] \in {"true", "false", "value"}
    /\ \E t \in Tasks : pc[t] = "inflight" /\ held[t]
    /\ \E t \in Tasks : pc[t] = "waiting"

(***************************************************************************)
(* Properties of the OOB listener of a run.                                *)
(***************************************************************************)
\* C30: setup_context enters start_oob_server only on a context that
\* carries an OOB address: whenever the run is in start_oob_server,
\* oob_details is present.
C30_OobServerNeedsAddress ==
    (run = "oob_server" /\ oob # "unused") => context.oob_details # "none"

(***************************************************************************)
(* cli.py: the subcommands detect, run and shell, and the calls of check   *)
(* each of them makes.                                                     *)
(***************************************************************************)
\* the number of catalog entries detect_injections goes through
MaxEntries == 2

Commands == {"detect", "run", "shell"}

\* what no step of a subcommand changes
commandRest == <<opts, pc, kind, payload, held, sent, failures, outcome,
                 oobVars, oracle, exploreVars, extractVars, flagVars,
                 renderVars, recoverVars, inbandVars, timedVars, featVars,
                 detect, run, feature_injection, feature_requests,
                 extraction_requests, parameters, server>>

\* the calls of check made so far belong to a part of the run that is over
ForgetChecks ==
    /\ check_pc' = [q \in Queries |-> "idle"]
    /\ check_payload' = [q \in Queries |-> <<>>]
    /\ args' = [q \in Queries |-> InitialParameters]
    /\ verdict' = [q \in Queries |-> FALSE]
    /\ elapsed' = [q \in Queries |-> 0]
    /\ matched' = [q \in Queries |-> FALSE]

\* no call of check is between its entry and its return
NoCheckRunning == \A q \in Queries : check_pc[q] \in {"idle", "returned"}

\* get_injections: async with context.start() as ctx, detect_injections(ctx).
\* detect calls it whatever the mode, setup_context in boolean mode only.
GetInjections ==
    /\ phase = "built"
    /\ command_pc = "idle"
    /\ command = "detect" \/ ~context.time_based
    /\ phase' = "started"
    /\ context' = [context EXCEPT !.injection = 0]
    /\ semaphore' = context.concurrency
    /\ command_pc' = "get_injections"
    /\ injector' = 1
    /\ returner' = <<>>
    /\ UNCHANGED <<commandRest, command, detected_injections, exit_code,
                   check_pc, check_payload, args, verdict, elapsed, matched>>

\* detect_injections calls check once for each test payload of the entry
DetectCheckCall(q) ==
    /\ command_pc = "get_injections"
    /\ q \in DOMAIN test_payloads(injector)
    /\ CheckCall(q)

\* the other callers of check: detect_features and the extraction
CommandCheckCall(q) ==
    /\ command_pc \in {"get_features", "attack"}
    /\ CheckCall(q)

\* all(result == expected for result, (_, expected) in zip(results, payloads))
ResultsAsExpected(tests) ==
    \A k \in DOMAIN tests : verdict[k] = tests[k].expected

\* detect_injections: the gathered results of one entry are compared with
\* the expected ones, and the loop goes to the next entry or returns
CommandGather ==
    /\ command_pc = "get_injections"
    /\ \A k \in DOMAIN test_payloads(injector) : check_pc[k] = "returned"
    /\ returner' = IF ResultsAsExpected(test_payloads(injector))
                   THEN Append(returner, injector)
                   ELSE returner
    /\ ForgetChecks
    /\ IF injector < MaxEntries
       THEN /\ injector' = injector + 1
            /\ UNCHANGED <<phase, command_pc>>
       ELSE /\ phase' = "built"
            /\ command_pc' = "injections_returned"
            /\ UNCHANGED injector
    /\ UNCHANGED <<commandRest, context, semaphore, command,
                   detected_injections, exit_code>>

\* if not payloads: exit(1)  (detect, lines 140-142; setup_context, 235-237)
InjectionsResult ==
    /\ command_pc = "injections_returned"
    /\ detected_injections' = returner
    /\ IF returner = <<>>
       THEN exit_code' = 1 /\ command_pc' = "exit"
       ELSE exit_code' = exit_code /\ command_pc' = "detected"
    /\ UNCHANGED <<commandRest, phase, context, semaphore, command, injector,
                   returner, check_pc, check_payload, args, verdict, elapsed,
                   matched>>

\* get_features: async with context.start(injection if context.time_based
\* else None) as ctx, detect_features(ctx, injection)
GetFeatures ==
    /\ phase = "built"
    /\ command_pc = "detected"
    /\ phase' = "started"
    /\ context' = [context EXCEPT !.injection =
                       IF context.time_based THEN detected_injections[1] ELSE 0]
    /\ semaphore' = context.concurrency
    /\ command_pc' = "get_features"
    /\ UNCHANGED <<commandRest, command, injector, returner,
                   detected_injections, exit_code,
                   check_pc, check_payload, args, verdict, elapsed, matched>>

\* detect_features returns and the session of get_features is closed
FeaturesReturn ==
    /\ command_pc = "get_features"
    /\ NoCheckRunning
    /\ phase' = "built"
    /\ context' = [context EXCEPT !.injection = 0]
    /\ command_pc' = IF command = "detect" THEN "done" ELSE "features_returned"
    /\ ForgetChecks
    /\ UNCHANGED <<commandRest, semaphore, command, injector, returner,
                   detected_injections, exit_code>>

\* setup_context in time-based mode: get_injections_timed measures with
\* timed_request, an empty result exits, and the threshold is put into the
\* context (lines 217-233)
GetInjectionsTimed ==
    /\ phase = "built"
    /\ command_pc = "idle"
    /\ command \in {"run", "shell"}
    /\ context.time_based
    /\ \/ /\ detected_injections' = <<>>
          /\ exit_code' = 1
          /\ command_pc' = "exit"
          /\ UNCHANGED context
       \/ /\ \E i \in CheckInjections \ {0} : detected_injections' = <<i>>
          /\ \E th \in Thresholds :
                 context' = [context EXCEPT !.time_threshold = th]
          /\ command_pc' = "calibrated"
          /\ UNCHANGED exit_code
    /\ UNCHANGED <<commandRest, phase, semaphore, command, injector, returner,
                   check_pc, check_payload, args, verdict, elapsed, matched>>

\* setup_context: async with context.start(detected_injections[0]) as ctx
\* (line 254); the context it yields is the one start_attack and start_shell
\* extract with
AttackStart ==
    /\ phase = "built"
    /\ command_pc \in {"calibrated", "features_returned"}
    /\ phase' = "started"
    /\ context' = [context EXCEPT !.injection = detected_injections[1]]
    /\ semaphore' = context.concurrency
    /\ command_pc' = "attack"
    /\ UNCHANGED <<commandRest, command, injector, returner,
                   detected_injections, exit_code,
                   check_pc, check_payload, args, verdict, elapsed, matched>>

\* the extraction is over and setup_context leaves its scopes
AttackEnd ==
    /\ command_pc = "attack"
    /\ NoCheckRunning
    /\ phase' = "built"
    /\ command_pc' = "done"
    /\ UNCHANGED <<commandRest, context, semaphore, command, injector,
                   returner, detected_injections, exit_code,
                   check_pc, check_payload, args, verdict, elapsed, matched>>

InitCommand ==
    /\ opts \in {o \in Options : /\ ~o.body
                                 /\ o.target_in_parameters
                                 /\ o.tamper = "none"
                                 /\ o.time_nesting \in {0, 1}
                                 /\ o.concurrency = 1
                                 /\ ~o.true_code
                                 /\ o.true_string
                                 /\ ~o.inband
                                 /\ o.oob = "none"}
    /\ phase = "cli"
    /\ context = NullContext
    /\ TaskInit
    /\ oob = "unused"
    /\ runner = "none"
    /\ oracle = {}
    /\ detect = "idle"
    /\ injector = 1
    /\ returner = <<>>
    /\ TimedIdle
    /\ InbandIdle
    /\ ExploreIdle
    /\ ExtractIdle
    /\ FlagIdle
    /\ RecoverIdle
    /\ RenderIdle
    /\ FeatIdle
    /\ CheckIdle
    /\ command \in Commands
    /\ command_pc = "idle"
    /\ run = "idle"
    /\ detected_injections = <<>>
    /\ feature_injection = 0
    /\ feature_requests = 0
    /\ extraction_requests = 0
    /\ exit_code = 0

NextCommand ==
    \/ Wrapper
    \/ GetInjections
    \/ \E q \in Queries : DetectCheckCall(q)
    \/ CommandGather
    \/ InjectionsResult
    \/ GetFeatures
    \/ FeaturesReturn
    \/ GetInjectionsTimed
    \/ AttackStart
    \/ AttackEnd
    \/ \E q \in Queries : CommandCheckCall(q)
    \/ \E q \in Queries : CheckRequest(q)
    \/ \E q \in Queries : CheckRespond(q)

SpecCommand == InitCommand /\ [][NextCommand]_vars

\* C26: whenever check has produced a timing verdict, the threshold of its
\* context is the strictly positive one detect_injections_timed calibrated,
\* in detect, run and shell alike; no timing verdict is made with the
\* default threshold 0.0.
C26_ThresholdCalibrated ==
    \A q \in Queries :
        (context.time_based /\ check_pc[q] = "returned") =>
            context.time_threshold > 0

====
